---- MODULE Spec2Model ----
(***************************************************************************)
(* Hamyon finance bot: the ingestion-and-ledger core.                      *)
(*                                                                         *)
(* The repository holds three bots with the same core:                     *)
(*   - the grammY long-polling bot       (src/src/index.ts, lines 1-327),  *)
(*   - the grammY webhook bot            (src/unnamed/part_000),           *)
(*   - the python-telegram-bot bot       (src/src/index.ts, lines 330-).   *)
(* The two grammY bots share every modelled line, so the model has one     *)
(* TypeScript bot ("ts") and one Python bot ("py"); the variable `bot`     *)
(* says which program is deployed.                                         *)
(*                                                                         *)
(* Storage is a collaborator: the tables the bots write (users.balance,    *)
(* transactions.user_telegram_id / category_id) are not the tables of the  *)
(* SQL files of the repository, so each storage call of a handler either   *)
(* succeeds or fails, and the model keeps the rows the successful calls    *)
(* leave.                                                                  *)
(*                                                                         *)
(* Text is a sequence of characters, each character a string; a character  *)
(* outside ASCII is written "uXXXX" (its code point).  JavaScript numbers  *)
(* are held in fixed point: an amount a is held as a * Sub.                *)
(***************************************************************************)
EXTENDS Integers, Sequences, FiniteSets, TLC

(***************************************************************************)
(* Characters and regular-expression primitives                            *)
(***************************************************************************)
Digit == {"0", "1", "2", "3", "4", "5", "6", "7", "8", "9"}

AsciiLower == {"a", "b", "c", "d", "e", "f", "g", "h", "i", "j", "k", "l", "m",
               "n", "o", "p", "q", "r", "s", "t", "u", "v", "w", "x", "y", "z"}

AsciiUpper == {"A", "B", "C", "D", "E", "F", "G", "H", "I", "J", "K", "L", "M",
               "N", "O", "P", "Q", "R", "S", "T", "U", "V", "W", "X", "Y", "Z"}

\* Cyrillic small letters U+0430..U+044F and U+0451
CyrLower == {"u0430", "u0431", "u0432", "u0433", "u0434", "u0435", "u0436", "u0437",
             "u0438", "u0439", "u043a", "u043b", "u043c", "u043d", "u043e", "u043f",
             "u0440", "u0441", "u0442", "u0443", "u0444", "u0445", "u0446", "u0447",
             "u0448", "u0449", "u044a", "u044b", "u044c", "u044d", "u044e", "u044f",
             "u0451"}

\* Cyrillic capital letters U+0410..U+042F and U+0401
CyrUpper == {"u0410", "u0411", "u0412", "u0413", "u0414", "u0415", "u0416", "u0417",
             "u0418", "u0419", "u041a", "u041b", "u041c", "u041d", "u041e", "u041f",
             "u0420", "u0421", "u0422", "u0423", "u0424", "u0425", "u0426", "u0427",
             "u0428", "u0429", "u042a", "u042b", "u042c", "u042d", "u042e", "u042f",
             "u0401"}

\* \s of both regular-expression dialects, as far as the model's texts go
Space == {" ", "\t", "\n"}

\* \w of a JavaScript regular expression without the u flag: [A-Za-z0-9_]
WordJS == AsciiLower \cup AsciiUpper \cup Digit \cup {"_"}

\* \w of a Python 3 str pattern: Unicode letters and digits and "_"
WordPy == WordJS \cup CyrLower \cup CyrUpper

\* String.prototype.toLowerCase / str.lower on one character
LowerChar(c) ==
  CASE c = "A" -> "a" [] c = "B" -> "b" [] c = "C" -> "c" [] c = "D" -> "d"
    [] c = "E" -> "e" [] c = "F" -> "f" [] c = "G" -> "g" [] c = "H" -> "h"
    [] c = "I" -> "i" [] c = "J" -> "j" [] c = "K" -> "k" [] c = "L" -> "l"
    [] c = "M" -> "m" [] c = "N" -> "n" [] c = "O" -> "o" [] c = "P" -> "p"
    [] c = "Q" -> "q" [] c = "R" -> "r" [] c = "S" -> "s" [] c = "T" -> "t"
    [] c = "U" -> "u" [] c = "V" -> "v" [] c = "W" -> "w" [] c = "X" -> "x"
    [] c = "Y" -> "y" [] c = "Z" -> "z"
    [] c = "u0410" -> "u0430" [] c = "u0411" -> "u0431" [] c = "u0412" -> "u0432"
    [] c = "u0413" -> "u0433" [] c = "u0414" -> "u0434" [] c = "u0415" -> "u0435"
    [] c = "u0416" -> "u0436" [] c = "u0417" -> "u0437" [] c = "u0418" -> "u0438"
    [] c = "u0419" -> "u0439" [] c = "u041a" -> "u043a" [] c = "u041b" -> "u043b"
    [] c = "u041c" -> "u043c" [] c = "u041d" -> "u043d" [] c = "u041e" -> "u043e"
    [] c = "u041f" -> "u043f" [] c = "u0420" -> "u0440" [] c = "u0421" -> "u0441"
    [] c = "u0422" -> "u0442" [] c = "u0423" -> "u0443" [] c = "u0424" -> "u0444"
    [] c = "u0425" -> "u0445" [] c = "u0426" -> "u0446" [] c = "u0427" -> "u0447"
    [] c = "u0428" -> "u0448" [] c = "u0429" -> "u0449" [] c = "u042a" -> "u044a"
    [] c = "u042b" -> "u044b" [] c = "u042c" -> "u044c" [] c = "u042d" -> "u044d"
    [] c = "u042e" -> "u044e" [] c = "u042f" -> "u044f" [] c = "u0401" -> "u0451"
    [] OTHER -> c

ToLower(s) == [i \in 1..Len(s) |-> LowerChar(s[i])]

\* str.strip(): drop leading and trailing whitespace
Strip(s) ==
  LET keep == {i \in 1..Len(s) : s[i] \notin Space}
  IN  IF keep = {} THEN << >>
      ELSE LET a == CHOOSE i \in keep : \A j \in keep : i <= j
               b == CHOOSE i \in keep : \A j \in keep : j <= i
           IN  SubSeq(s, a, b)

DigitVal(c) ==
  CASE c = "0" -> 0 [] c = "1" -> 1 [] c = "2" -> 2 [] c = "3" -> 3 [] c = "4" -> 4
    [] c = "5" -> 5 [] c = "6" -> 6 [] c = "7" -> 7 [] c = "8" -> 8 [] c = "9" -> 9

\* the decimal value of a sequence of digit characters
RECURSIVE IntVal(_)
IntVal(ds) ==
  IF ds = << >> THEN 0
  ELSE IntVal(SubSeq(ds, 1, Len(ds) - 1)) * 10 + DigitVal(ds[Len(ds)])

RECURSIVE Pow10(_)
Pow10(k) == IF k = 0 THEN 1 ELSE 10 * Pow10(k - 1)

\* \d+ starting at i, greedy: the index just past the run (i when s[i] is no digit)
DigitRunEnd(s, i) ==
  CHOOSE j \in i..(Len(s) + 1) :
    /\ \A k \in i..(j - 1) : s[k] \in Digit
    /\ j = Len(s) + 1 \/ s[j] \notin Digit

\* \s* starting at i, greedy: the index just past the run
SpaceRunEnd(s, i) ==
  CHOOSE j \in i..(Len(s) + 1) :
    /\ \A k \in i..(j - 1) : s[k] \in Space
    /\ j = Len(s) + 1 \/ s[j] \notin Space

\* the literal tok occurs in s at index p
LiteralAt(s, p, tok) ==
  /\ p >= 1
  /\ p + Len(tok) - 1 <= Len(s)
  /\ \A i \in 1..Len(tok) : s[p + i - 1] = tok[i]

\* \b between s[p-1] and s[p], for the dialect whose \w is the set word
WordBoundary(s, p, word) ==
  (p > 1 /\ p - 1 <= Len(s) /\ s[p - 1] \in word)
    # (p >= 1 /\ p <= Len(s) /\ s[p] \in word)

\* String.prototype.includes / Python's `kw in text`
Includes(s, kw) == \E p \in 1..(Len(s) + 1) : LiteralAt(s, p, kw)

\* the least element of a non-empty set of indices (the leftmost match)
Leftmost(S) == CHOOSE i \in S : \A j \in S : i <= j

(***************************************************************************)
(* Numbers                                                                 *)
(***************************************************************************)
\* Amounts are held in fixed point, Sub sub-units to the currency unit, so
\* that the non-integral numbers parseFloat(..) * 1_000 can return are
\* values of the model: the amount a is held as a * Sub.
Sub == 10

Abs(n) == IF n < 0 THEN -n ELSE n

\* Math.trunc on a fixed-point number: drop the fraction, toward zero
Trunc(n) == IF n < 0 THEN -((-n \div Sub) * Sub) ELSE (n \div Sub) * Sub

IsInteger(n) == n % Sub = 0

Million == 1000000

Thousand == 1000

\* the bare-digit rule's floor: `if (n >= 100)`, `if num >= 100`
MinAmount == 100

\* a parser's result: null / None, or a number
Null == [found |-> FALSE, value |-> 0]

Some(v) == [found |-> TRUE, value |-> v]

\* `!amount` / `not amount`: null, None and 0 are all falsy
Falsy(r) == ~r.found \/ r.value = 0

(***************************************************************************)
(* Amount parser                                                           *)
(***************************************************************************)
\* a scale token of the regular expressions: the literal, and the literal a
\* negative lookahead forbids right after it (<< >>: no lookahead)
Tok(lit) == [lit |-> lit, nla |-> << >>]

TokNot(lit, nla) == [lit |-> lit, nla |-> nla]

\* (?:mln|million|миллион|млн)
MillionWords ==
  { Tok(<<"m", "l", "n">>),
    Tok(<<"m", "i", "l", "l", "i", "o", "n">>),
    Tok(<<"u043c", "u0438", "u043b", "u043b", "u0438", "u043e", "u043d">>),
    Tok(<<"u043c", "u043b", "u043d">>) }

\* m(?!ing)
LoneM == { TokNot(<<"m">>, <<"i", "n", "g">>) }

\* (?:k|к|тысяч|ming|минг)
ThousandWords ==
  { Tok(<<"k">>),
    Tok(<<"u043a">>),
    Tok(<<"u0442", "u044b", "u0441", "u044f", "u0447">>),
    Tok(<<"m", "i", "n", "g">>),
    Tok(<<"u043c", "u0438", "u043d", "u0433">>) }

\* one alternative of the token group, then \b, at index p
TokenAt(s, p, t, word) ==
  /\ LiteralAt(s, p, t.lit)
  /\ t.nla = << >> \/ ~LiteralAt(s, p + Len(t.lit), t.nla)
  /\ WordBoundary(s, p + Len(t.lit), word)

\* the capture (\d+(?:[.,]\d+)?) at index i: where its parts end
NumberSpan(s, i) ==
  LET e1   == DigitRunEnd(s, i)
      frac == e1 + 1 <= Len(s) /\ s[e1] \in {".", ","} /\ s[e1 + 1] \in Digit
      e2   == IF frac THEN DigitRunEnd(s, e1 + 1) ELSE e1
  IN  [intEnd |-> e1, frac |-> frac, end |-> e2]

\* (\d+(?:[.,]\d+)?)\s*(?:tokens)\b matches with the capture starting at i
ScaledAt(s, i, tokens, word) ==
  /\ i >= 1 /\ i <= Len(s)
  /\ s[i] \in Digit
  /\ LET p == SpaceRunEnd(s, NumberSpan(s, i).end)
     IN  \E t \in tokens : TokenAt(s, p, t, word)

\* parseFloat(m[1].replace(",", ".")) / float(group(1).replace(",", ".")):
\* the capture at i as the fraction num / den
Capture(s, i) ==
  LET sp == NumberSpan(s, i)
      ip == SubSeq(s, i, sp.intEnd - 1)
      fp == IF sp.frac THEN SubSeq(s, sp.intEnd + 1, sp.end - 1) ELSE << >>
  IN  [num |-> IntVal(ip) * Pow10(Len(fp)) + IntVal(fp), den |-> Pow10(Len(fp))]

\* parseFloat(..) * scale, a JavaScript number: not rounded.  Exact for the
\* fractions Sub can hold, cut to the sub-unit below otherwise.
ScaleJS(q, scale) ==
  IF q.den <= scale
  THEN q.num * (scale \div q.den) * Sub
  ELSE (q.num * Sub) \div (q.den \div scale)

\* int(float(..) * scale): cut toward zero to an integer
ScalePy(q, scale) ==
  IF q.den <= scale
  THEN q.num * (scale \div q.den) * Sub
  ELSE (q.num \div (q.den \div scale)) * Sub

\* one group (?:[,\s]\d{3}) at index g
GroupAt(s, g) ==
  /\ g >= 1 /\ g + 3 <= Len(s)
  /\ s[g] \in ({","} \cup Space)
  /\ \A k \in 1..3 : s[g + k] \in Digit

\* the lengths n of \d{1,3} at index i after which a group follows
HeadLens(s, i) ==
  {n \in 1..3 : /\ i + n - 1 <= Len(s)
                /\ \A k \in 0..(n - 1) : s[i + k] \in Digit
                /\ GroupAt(s, i + n)}

\* (\d{1,3}(?:[,\s]\d{3})+) matches starting at index i
FormattedAt(s, i) == i >= 1 /\ i <= Len(s) /\ HeadLens(s, i) # {}

\* the digits of the match at i, separators stripped: replace(/[,\s]/g, "")
FormattedDigits(s, i) ==
  LET n  == CHOOSE h \in HeadLens(s, i) : \A h2 \in HeadLens(s, i) : h2 <= h
      g0 == i + n
      \* the groups repeat greedily
      cnt == CHOOSE c \in 1..Len(s) :
               /\ \A q \in 0..(c - 1) : GroupAt(s, g0 + 4 * q)
               /\ ~GroupAt(s, g0 + 4 * c)
      RECURSIVE Groups(_)
      Groups(q) == IF q = cnt THEN << >>
                   ELSE SubSeq(s, g0 + 4 * q + 1, g0 + 4 * q + 3) \o Groups(q + 1)
  IN  SubSeq(s, i, g0 - 1) \o Groups(0)

\* literal tiers that take the first digit run that reaches the floor
LiteralTiersAnyRun(s) ==
  LET fm == {i \in 1..Len(s) : FormattedAt(s, i)}
      sm == {i \in 1..Len(s) :
               /\ s[i] \in Digit
               /\ (i = 1 \/ s[i - 1] \notin Digit)
               /\ IntVal(SubSeq(s, i, DigitRunEnd(s, i) - 1)) >= MinAmount}
  IN  IF fm # {} THEN Some(IntVal(FormattedDigits(s, Leftmost(fm))) * Sub)
      ELSE IF sm # {}
      THEN LET i == Leftmost(sm)
           IN  Some(IntVal(SubSeq(s, i, DigitRunEnd(s, i) - 1)) * Sub)
      ELSE Null

\* the tiers shared by both parsers: grouped literal, then bare digit run
LiteralTiers(s) ==
  LET fm == {i \in 1..Len(s) : FormattedAt(s, i)}
      sm == {i \in 1..Len(s) : s[i] \in Digit}
  IN  IF fm # {} THEN Some(IntVal(FormattedDigits(s, Leftmost(fm))) * Sub)
      ELSE IF sm # {}
      THEN LET i == Leftmost(sm)
               n == IntVal(SubSeq(s, i, DigitRunEnd(s, i) - 1))
           IN  IF n >= MinAmount THEN Some(n * Sub) ELSE Null
      ELSE Null

\* a parser that tries the thousand tokens before the million tokens
parseAmountThousandFirst(text) ==
  LET lower == ToLower(text)
      mil == {i \in 1..Len(lower) : ScaledAt(lower, i, MillionWords, WordJS)}
      m   == {i \in 1..Len(lower) : ScaledAt(lower, i, LoneM, WordJS)}
      k   == {i \in 1..Len(lower) : ScaledAt(lower, i, ThousandWords, WordJS)}
  IN  IF k # {} THEN Some(ScaleJS(Capture(lower, Leftmost(k)), Thousand))
      ELSE IF mil # {} THEN Some(ScaleJS(Capture(lower, Leftmost(mil)), Million))
      ELSE IF m # {} THEN Some(ScaleJS(Capture(lower, Leftmost(m)), Million))
      ELSE LiteralTiers(text)

\* function parseAmount(text: string): number | null
parseAmount(text) ==
  LET lower == ToLower(text)
      mil == {i \in 1..Len(lower) : ScaledAt(lower, i, MillionWords, WordJS)}
      m   == {i \in 1..Len(lower) : ScaledAt(lower, i, LoneM, WordJS)}
      k   == {i \in 1..Len(lower) : ScaledAt(lower, i, ThousandWords, WordJS)}
  IN  IF mil # {} THEN Some(ScaleJS(Capture(lower, Leftmost(mil)), Million))
      ELSE IF m # {} THEN Some(ScaleJS(Capture(lower, Leftmost(m)), Million))
      ELSE IF k # {} THEN Some(ScaleJS(Capture(lower, Leftmost(k)), Thousand))
      ELSE LiteralTiers(text)

\* def parse_amount(text: str) -> Optional[int]
parse_amount(text) ==
  LET s   == Strip(ToLower(text))
      mil == {i \in 1..Len(s) : ScaledAt(s, i, MillionWords \cup LoneM, WordPy)}
      k   == {i \in 1..Len(s) : ScaledAt(s, i, ThousandWords, WordPy)}
  IN  IF mil # {} THEN Some(ScalePy(Capture(s, Leftmost(mil)), Million))
      ELSE IF k # {} THEN Some(ScalePy(Capture(s, Leftmost(k)), Thousand))
      ELSE LiteralTiers(s)

(***************************************************************************)
(* Category taxonomy                                                       *)
(***************************************************************************)
\* const CATEGORIES = { expense: [...], income: [...] }, in source order
CATEGORIES_expense ==
  << [id |-> "accessories", name |-> "Aksessuarlar",
      keywords |-> <<
           <<"b","a","g">>, <<"s","u","m","k","a">>, <<"w","a","l","l","e","t">>,
           <<"h","a","m","y","o","n">>, <<"w","a","t","c","h">>, <<"s","o","a","t">> >>],
     [id |-> "food", name |-> "Oziq-ovqat",
      keywords |-> <<
           <<"f","o","o","d">>, <<"g","r","o","c","e","r","y">>, <<"o","z","i","q">>,
           <<"o","v","q","a","t">> >>],
     [id |-> "taxi", name |-> "Taksi",
      keywords |-> <<
           <<"t","a","x","i">>, <<"t","a","k","s","i">>, <<"y","a","n","d","e","x">> >>],
     [id |-> "other", name |-> "Boshqa",
      keywords |-> <<
           <<"o","t","h","e","r">>, <<"b","o","s","h","q","a">> >>] >>

CATEGORIES_income ==
  << [id |-> "salary", name |-> "Oylik maosh",
      keywords |-> <<
           <<"s","a","l","a","r","y">>, <<"o","y","l","i","k">>, <<"m","a","o","s","h">> >>],
     [id |-> "other_income", name |-> "Boshqa daromad",
      keywords |-> <<
           <<"i","n","c","o","m","e">>, <<"d","a","r","o","m","a","d">> >>] >>

\* CATEGORIES: Dict[str, Category], in insertion order (the order dict iteration follows)
PY_CATEGORIES ==
  << [id |-> "food", tx_type |-> "expense",
      keywords |-> <<
           <<"f","o","o","d">>, <<"o","z","i","q">>, <<"o","v","q","a","t">>,
           <<"g","r","o","c","e","r","y">>, <<"m","a","g","a","z","i","n">>,
           <<"u043f","u0440","u043e","u0434","u0443","u043a","u0442","u044b">>,
           <<"u0435","u0434","u0430">> >>],
     [id |-> "restaurants", tx_type |-> "expense",
      keywords |-> <<
           <<"r","e","s","t","a","u","r","a","n","t">>, <<"r","e","s","t","o","r","a","n">>,
           <<"c","a","f","e">>, <<"k","a","f","e">>,
           <<"u0440","u0435","u0441","u0442","u043e","u0440","u0430","u043d">>,
           <<"u043a","u0430","u0444","u0435">> >>],
     [id |-> "coffee", tx_type |-> "expense",
      keywords |-> <<
           <<"c","o","f","f","e","e">>, <<"k","o","f","e">>,
           <<"u043a","u043e","u0444","u0435">>, <<"s","t","a","r","b","u","c","k","s">>,
           <<"e","s","p","r","e","s","s","o">> >>],
     [id |-> "taxi", tx_type |-> "expense",
      keywords |-> <<
           <<"t","a","x","i">>, <<"t","a","k","s","i">>, <<"y","a","n","d","e","x">>,
           <<"u","b","e","r">>, <<"u0442","u0430","u043a","u0441","u0438">>,
           <<"b","o","l","t">> >>],
     [id |-> "fuel", tx_type |-> "expense",
      keywords |-> <<
           <<"f","u","e","l">>, <<"b","e","n","z","i","n">>, <<"g","a","s">>,
           <<"p","e","t","r","o","l">>, <<"u0431","u0435","u043d","u0437","u0438","u043d">>,
           <<"u0442","u043e","u043f","u043b","u0438","u0432","u043e">>,
           <<"y","o","q","i","l","g","i">> >>],
     [id |-> "transport", tx_type |-> "expense",
      keywords |-> <<
           <<"t","r","a","n","s","p","o","r","t">>, <<"b","u","s">>,
           <<"a","v","t","o","b","u","s">>, <<"m","e","t","r","o">>,
           <<"u0442","u0440","u0430","u043d","u0441","u043f","u043e","u0440","u0442">>,
           <<"u0430","u0432","u0442","u043e","u0431","u0443","u0441">> >>],
     [id |-> "bills", tx_type |-> "expense",
      keywords |-> <<
           <<"b","i","l","l","s">>, <<"k","o","m","m","u","n","a","l">>,
           <<"u","t","i","l","i","t","y">>, <<"e","l","e","c","t","r","i","c">>,
           <<"g","a","s">>, <<"w","a","t","e","r">>,
           <<"u043a","u043e","u043c","u043c","u0443","u043d","u0430","u043b","u044c","u043d","u044b","u0435">>,
           <<"u0441","u0432","u0435","u0442">>, <<"u0433","u0430","u0437">> >>],
     [id |-> "rent", tx_type |-> "expense",
      keywords |-> <<
           <<"r","e","n","t">>, <<"i","j","a","r","a">>,
           <<"k","v","a","r","t","i","r","a">>,
           <<"u0430","u0440","u0435","u043d","u0434","u0430">>,
           <<"u043a","u0432","u0430","u0440","u0442","u0438","u0440","u0430">> >>],
     [id |-> "shopping", tx_type |-> "expense",
      keywords |-> <<
           <<"s","h","o","p","p","i","n","g">>, <<"x","a","r","i","d">>, <<"b","u","y">>,
           <<"p","u","r","c","h","a","s","e">>,
           <<"u043f","u043e","u043a","u0443","u043f","u043a","u0438">>,
           <<"u0448","u043e","u043f","u043f","u0438","u043d","u0433">> >>],
     [id |-> "clothing", tx_type |-> "expense",
      keywords |-> <<
           <<"c","l","o","t","h","i","n","g">>, <<"k","i","y","i","m">>,
           <<"c","l","o","t","h","e","s">>, <<"s","h","i","r","t">>,
           <<"p","a","n","t","s">>, <<"u043e","u0434","u0435","u0436","u0434","u0430">>,
           <<"u0444","u0443","u0442","u0431","u043e","u043b","u043a","u0430">> >>],
     [id |-> "health", tx_type |-> "expense",
      keywords |-> <<
           <<"h","e","a","l","t","h">>, <<"s","a","l","o","m","a","t","l","i","k">>,
           <<"m","e","d","i","c","i","n","e">>, <<"d","o","c","t","o","r">>,
           <<"h","o","s","p","i","t","a","l">>, <<"p","h","a","r","m","a","c","y">>,
           <<"u0437","u0434","u043e","u0440","u043e","u0432","u044c","u0435">>,
           <<"u0430","u043f","u0442","u0435","u043a","u0430">>,
           <<"u0432","u0440","u0430","u0447">> >>],
     [id |-> "beauty", tx_type |-> "expense",
      keywords |-> <<
           <<"b","e","a","u","t","y">>, <<"s","a","l","o","n">>,
           <<"h","a","i","r","c","u","t">>, <<"s","a","r","t","a","r","o","s","h">>,
           <<"u043a","u0440","u0430","u0441","u043e","u0442","u0430">>,
           <<"u0441","u0430","u043b","u043e","u043d">> >>],
     [id |-> "education", tx_type |-> "expense",
      keywords |-> <<
           <<"e","d","u","c","a","t","i","o","n">>, <<"t","a","l","i","m">>,
           <<"c","o","u","r","s","e">>, <<"k","u","r","s">>, <<"b","o","o","k">>,
           <<"k","i","t","o","b">>,
           <<"u043e","u0431","u0440","u0430","u0437","u043e","u0432","u0430","u043d","u0438","u0435">>,
           <<"u043a","u0443","u0440","u0441">>, <<"u043a","u043d","u0438","u0433","u0430">> >>],
     [id |-> "entertainment", tx_type |-> "expense",
      keywords |-> <<
           <<"e","n","t","e","r","t","a","i","n","m","e","n","t">>, <<"m","o","v","i","e">>,
           <<"k","i","n","o">>, <<"c","i","n","e","m","a">>, <<"g","a","m","e">>,
           <<"u0440","u0430","u0437","u0432","u043b","u0435","u0447","u0435","u043d","u0438","u044f">>,
           <<"u043a","u0438","u043d","u043e">> >>],
     [id |-> "sports", tx_type |-> "expense",
      keywords |-> <<
           <<"s","p","o","r","t","s">>, <<"s","p","o","r","t">>, <<"g","y","m">>,
           <<"f","i","t","n","e","s","s">>, <<"u0441","u043f","u043e","u0440","u0442">>,
           <<"u0444","u0438","u0442","u043d","u0435","u0441">>, <<"u0437","u0430","u043b">> >>],
     [id |-> "travel", tx_type |-> "expense",
      keywords |-> <<
           <<"t","r","a","v","e","l">>, <<"s","a","y","o","h","a","t">>,
           <<"t","r","i","p">>, <<"v","a","c","a","t","i","o","n">>,
           <<"u043f","u0443","u0442","u0435","u0448","u0435","u0441","u0442","u0432","u0438","u0435">>,
           <<"u043e","u0442","u043f","u0443","u0441","u043a">> >>],
     [id |-> "electronics", tx_type |-> "expense",
      keywords |-> <<
           <<"e","l","e","c","t","r","o","n","i","c","s">>, <<"p","h","o","n","e">>,
           <<"t","e","l","e","f","o","n">>, <<"l","a","p","t","o","p">>,
           <<"c","o","m","p","u","t","e","r">>,
           <<"u044d","u043b","u0435","u043a","u0442","u0440","u043e","u043d","u0438","u043a","u0430">>,
           <<"u0442","u0435","u043b","u0435","u0444","u043e","u043d">> >>],
     [id |-> "gifts", tx_type |-> "expense",
      keywords |-> <<
           <<"g","i","f","t">>, <<"s","o","v","g","a">>, <<"p","r","e","s","e","n","t">>,
           <<"u043f","u043e","u0434","u0430","u0440","u043e","u043a">> >>],
     [id |-> "pets", tx_type |-> "expense",
      keywords |-> <<
           <<"p","e","t">>, <<"d","o","g">>, <<"c","a","t">>, <<"m","u","s","h","u","k">>,
           <<"i","t">>, <<"u043f","u0438","u0442","u043e","u043c","u0435","u0446">>,
           <<"u0441","u043e","u0431","u0430","u043a","u0430">>,
           <<"u043a","u043e","u0448","u043a","u0430">> >>],
     [id |-> "kids", tx_type |-> "expense",
      keywords |-> <<
           <<"k","i","d","s">>, <<"c","h","i","l","d","r","e","n">>,
           <<"b","o","l","a","l","a","r">>, <<"u0434","u0435","u0442","u0438">>,
           <<"u0440","u0435","u0431","u0435","u043d","u043e","u043a">> >>],
     [id |-> "home", tx_type |-> "expense",
      keywords |-> <<
           <<"h","o","m","e">>, <<"f","u","r","n","i","t","u","r","e">>,
           <<"m","e","b","e","l">>, <<"u","y">>, <<"u0434","u043e","u043c">>,
           <<"u043c","u0435","u0431","u0435","u043b","u044c">> >>],
     [id |-> "internet", tx_type |-> "expense",
      keywords |-> <<
           <<"i","n","t","e","r","n","e","t">>, <<"w","i","f","i">>, <<"d","a","t","a">>,
           <<"u0438","u043d","u0442","u0435","u0440","u043d","u0435","u0442">> >>],
     [id |-> "phone_bill", tx_type |-> "expense",
      keywords |-> <<
           <<"p","h","o","n","e">>, <<"m","o","b","i","l","e">>,
           <<"t","e","l","e","f","o","n">>, <<"b","e","e","l","i","n","e">>,
           <<"u","c","e","l","l">>,
           <<"u0442","u0435","u043b","u0435","u0444","u043e","u043d">>,
           <<"u0441","u0432","u044f","u0437","u044c">> >>],
     [id |-> "insurance", tx_type |-> "expense",
      keywords |-> <<
           <<"i","n","s","u","r","a","n","c","e">>, <<"s","u","g","u","r","t","a">>,
           <<"u0441","u0442","u0440","u0430","u0445","u043e","u0432","u043a","u0430">> >>],
     [id |-> "taxes", tx_type |-> "expense",
      keywords |-> <<
           <<"t","a","x">>, <<"s","o","l","i","q">>,
           <<"u043d","u0430","u043b","u043e","u0433">> >>],
     [id |-> "charity", tx_type |-> "expense",
      keywords |-> <<
           <<"c","h","a","r","i","t","y">>, <<"x","a","y","r","i","y","a">>,
           <<"s","a","d","a","q","a">>, <<"d","o","n","a","t","i","o","n">>,
           <<"u0431","u043b","u0430","u0433","u043e","u0442","u0432","u043e","u0440","u0438","u0442","u0435","u043b","u044c","u043d","u043e","u0441","u0442","u044c">> >>],
     [id |-> "subscriptions", tx_type |-> "expense",
      keywords |-> <<
           <<"s","u","b","s","c","r","i","p","t","i","o","n">>,
           <<"n","e","t","f","l","i","x">>, <<"s","p","o","t","i","f","y">>,
           <<"y","o","u","t","u","b","e">>,
           <<"u043f","u043e","u0434","u043f","u0438","u0441","u043a","u0430">>,
           <<"o","b","u","n","a">> >>],
     [id |-> "other_expense", tx_type |-> "expense",
      keywords |-> <<
           <<"o","t","h","e","r">>, <<"b","o","s","h","q","a">>,
           <<"u0434","u0440","u0443","u0433","u043e","u0435">> >>],
     [id |-> "salary", tx_type |-> "income",
      keywords |-> <<
           <<"s","a","l","a","r","y">>, <<"o","y","l","i","k">>, <<"m","a","o","s","h">>,
           <<"i","s","h"," ","h","a","q","i">>,
           <<"u0437","u0430","u0440","u043f","u043b","u0430","u0442","u0430">> >>],
     [id |-> "freelance", tx_type |-> "income",
      keywords |-> <<
           <<"f","r","e","e","l","a","n","c","e">>, <<"f","r","i","l","a","n","s","e","r">>,
           <<"u0444","u0440","u0438","u043b","u0430","u043d","u0441">>,
           <<"p","r","o","j","e","c","t">>, <<"l","o","y","i","h","a">> >>],
     [id |-> "business", tx_type |-> "income",
      keywords |-> <<
           <<"b","u","s","i","n","e","s","s">>, <<"b","i","z","n","e","s">>,
           <<"u0431","u0438","u0437","u043d","u0435","u0441">>, <<"s","a","v","d","o">> >>],
     [id |-> "investments", tx_type |-> "income",
      keywords |-> <<
           <<"i","n","v","e","s","t","m","e","n","t">>,
           <<"i","n","v","e","s","t","i","t","s","i","y","a">>,
           <<"d","i","v","i","d","e","n","d">>,
           <<"u0438","u043d","u0432","u0435","u0441","u0442","u0438","u0446","u0438","u0438">>,
           <<"u0434","u0438","u0432","u0438","u0434","u0435","u043d","u0434","u044b">> >>],
     [id |-> "bonus", tx_type |-> "income",
      keywords |-> <<
           <<"b","o","n","u","s">>, <<"a","w","a","r","d">>,
           <<"m","u","k","o","f","o","t">>, <<"u0431","u043e","u043d","u0443","u0441">>,
           <<"u043f","u0440","u0435","u043c","u0438","u044f">> >>],
     [id |-> "gift_income", tx_type |-> "income",
      keywords |-> <<
           <<"g","i","f","t">>, <<"s","o","v","g","a">>, <<"p","r","e","s","e","n","t">>,
           <<"u043f","u043e","u0434","u0430","u0440","u043e","u043a">> >>],
     [id |-> "rental_income", tx_type |-> "income",
      keywords |-> <<
           <<"r","e","n","t","a","l">>, <<"i","j","a","r","a">>,
           <<"r","e","n","t"," ","i","n","c","o","m","e">>,
           <<"u0430","u0440","u0435","u043d","u0434","u0430">> >>],
     [id |-> "refund", tx_type |-> "income",
      keywords |-> <<
           <<"r","e","f","u","n","d">>, <<"q","a","y","t","a","r","i","s","h">>,
           <<"r","e","t","u","r","n">>,
           <<"u0432","u043e","u0437","u0432","u0440","u0430","u0442">> >>],
     [id |-> "other_income", tx_type |-> "income",
      keywords |-> <<
           <<"i","n","c","o","m","e">>, <<"d","a","r","o","m","a","d">>,
           <<"u0434","u043e","u0445","u043e","u0434">> >>],
     [id |-> "borrowed", tx_type |-> "debt",
      keywords |-> <<
           <<"b","o","r","r","o","w","e","d">>, <<"q","a","r","z"," ","o","l","d","i","m">>,
           <<"u0437","u0430","u043d","u044f","u043b">>,
           <<"u0432","u0437","u044f","u043b"," ","u0432"," ","u0434","u043e","u043b","u0433">> >>],
     [id |-> "lent", tx_type |-> "debt",
      keywords |-> <<
           <<"l","e","n","t">>, <<"q","a","r","z"," ","b","e","r","d","i","m">>,
           <<"u0434","u0430","u043b"," ","u0432"," ","u0434","u043e","u043b","u0433">>,
           <<"u043e","u0434","u043e","u043b","u0436","u0438","u043b">> >>],
     [id |-> "debt_payment", tx_type |-> "debt",
      keywords |-> <<
           <<"d","e","b","t"," ","p","a","y","m","e","n","t">>,
           <<"q","a","r","z"," ","t","o","l","o","v","i">>,
           <<"u043f","u043b","u0430","u0442","u0451","u0436">>,
           <<"u043f","u043e","u0433","u0430","u0448","u0435","u043d","u0438","u0435">> >>] >>

(***************************************************************************)
(* Category classifier                                                     *)
(***************************************************************************)
\* cat.keywords.some((kw) => lower.includes(kw)) / any(kw in text_lower for kw in cat.keywords)
HasKeyword(lower, cat) ==
  \E n \in 1..Len(cat.keywords) : Includes(lower, cat.keywords[n])

\* a lookup that answers with the first category of the taxonomy, whatever the id
getCategoryByIdFirst(id) == (CATEGORIES_expense \o CATEGORIES_income)[1]

\* function getCategoryById(id: string): Category
getCategoryById(id) ==
  LET all == CATEGORIES_expense \o CATEGORIES_income
      hit == {n \in 1..Len(all) : all[n].id = id}
  IN  IF hit # {} THEN all[Leftmost(hit)]
      ELSE [id |-> "other", name |-> "Boshqa", keywords |-> << >>]

\* a scan that tries the expense categories before the income categories
detectCategoryExpenseFirst(text) ==
  LET lower == ToLower(text)
      inc == {n \in 1..Len(CATEGORIES_income) : HasKeyword(lower, CATEGORIES_income[n])}
      exp == {n \in 1..Len(CATEGORIES_expense) : HasKeyword(lower, CATEGORIES_expense[n])}
  IN  IF exp # {} THEN [id |-> CATEGORIES_expense[Leftmost(exp)].id, type |-> "expense"]
      ELSE IF inc # {} THEN [id |-> CATEGORIES_income[Leftmost(inc)].id, type |-> "income"]
      ELSE [id |-> getCategoryById("other").id, type |-> "expense"]

\* function detectCategory(text: string): CategoryDetect
detectCategory(text) ==
  LET lower == ToLower(text)
      inc == {n \in 1..Len(CATEGORIES_income) : HasKeyword(lower, CATEGORIES_income[n])}
      exp == {n \in 1..Len(CATEGORIES_expense) : HasKeyword(lower, CATEGORIES_expense[n])}
  IN  IF inc # {} THEN [id |-> CATEGORIES_income[Leftmost(inc)].id, type |-> "income"]
      ELSE IF exp # {} THEN [id |-> CATEGORIES_expense[Leftmost(exp)].id, type |-> "expense"]
      ELSE [id |-> getCategoryById("other").id, type |-> "expense"]

\* `category_id in CATEGORIES` / `CATEGORIES.get(category_id)` is not None
InCATEGORIES(id) == \E n \in 1..Len(PY_CATEGORIES) : PY_CATEGORIES[n].id = id

\* CATEGORIES.get(category_id), for an id that is a key
CATEGORIES_get(id) ==
  PY_CATEGORIES[CHOOSE n \in 1..Len(PY_CATEGORIES) : PY_CATEGORIES[n].id = id]

\* a scan that goes on to the debt categories when no other kind matches
detect_categoryWithDebt(text) ==
  LET text_lower == ToLower(text)
      hit(kind) == {n \in 1..Len(PY_CATEGORIES) :
                      PY_CATEGORIES[n].tx_type = kind /\ HasKeyword(text_lower, PY_CATEGORIES[n])}
  IN  IF hit("income") # {} THEN [id |-> PY_CATEGORIES[Leftmost(hit("income"))].id, type |-> "income"]
      ELSE IF hit("expense") # {}
      THEN [id |-> PY_CATEGORIES[Leftmost(hit("expense"))].id, type |-> "expense"]
      ELSE IF hit("debt") # {} THEN [id |-> PY_CATEGORIES[Leftmost(hit("debt"))].id, type |-> "debt"]
      ELSE [id |-> "other_expense", type |-> "expense"]

\* def detect_category(text: str) -> Tuple[str, TxType]
detect_category(text) ==
  LET text_lower == ToLower(text)
      inc == {n \in 1..Len(PY_CATEGORIES) :
                PY_CATEGORIES[n].tx_type = "income" /\ HasKeyword(text_lower, PY_CATEGORIES[n])}
      exp == {n \in 1..Len(PY_CATEGORIES) :
                PY_CATEGORIES[n].tx_type = "expense" /\ HasKeyword(text_lower, PY_CATEGORIES[n])}
  IN  IF inc # {} THEN [id |-> PY_CATEGORIES[Leftmost(inc)].id, type |-> "income"]
      ELSE IF exp # {} THEN [id |-> PY_CATEGORIES[Leftmost(exp)].id, type |-> "expense"]
      ELSE [id |-> "other_expense", type |-> "expense"]

(***************************************************************************)
(* Inputs                                                                  *)
(***************************************************************************)
\* the most transactions the ledger of a single-user conversation holds
MaxTx == 2

\* the most transactions the ledgers of the two-user conversations hold
\* together
MaxPairTx == 1

\* Telegram user ids
Users == {1, 2}

\* the user of the single-conversation specifications
Solo == {1}

\* "taxi 30000": an expense keyword and a bare digit run
TextTaxi == <<"t", "a", "x", "i", " ", "3", "0", "0", "0", "0">>

\* "Salary 5m": an income keyword and a million-scale amount
TextSalary == <<"S", "a", "l", "a", "r", "y", " ", "5", "m">>

\* "call me at 99": digits below the floor, no amount
TextCall == <<"c", "a", "l", "l", " ", "m", "e", " ", "a", "t", " ", "9", "9">>

\* "0k": a scale token on a zero magnitude
TextZero == <<"0", "k">>

\* the messages of the two-user conversations
Texts == {TextTaxi, TextCall, TextZero}

\* the messages of the single-user conversations
WideTexts == {TextTaxi, TextSalary, TextCall, TextZero}

\* "taxi 1.2345k": a thousand-scale amount with a fraction of a unit
TextFraction ==
  <<"t", "a", "x", "i", " ", "1", ".", "2", "3", "4", "5", "k">>

AllTexts == Texts \cup WideTexts \cup {TextFraction}

\* the callback payloads pick_exp:<id> / pick_inc:<id> and cat:<type>:<id>
\* of the two-user conversations: a button of each keyboard
Payloads ==
  { [type |-> "expense", id |-> "taxi"],
    [type |-> "income", id |-> "salary"] }

\* the same, and an id the taxonomy does not hold
WidePayloads == Payloads \cup { [type |-> "expense", id |-> "nosuch"] }

\* the buttons of get_category_keyboard(TxType.DEBT)
DebtPayloads ==
  { [type |-> "debt", id |-> "borrowed"],
    [type |-> "debt", id |-> "lent"],
    [type |-> "debt", id |-> "debt_payment"] }

\* class TxType(Enum)
TxType == {"expense", "income", "debt"}

\* what speech-to-text hands back: no API key, no text, or the text
Transcripts == {<<"no_key">>, <<"none">>} \cup Texts

\* a receipt photo's processing: whether OPENAI_API_KEY is set, and what
\* receipt analysis hands back: nothing, {"error": ..}, or the fields
Receipts ==
  { [key |-> FALSE, ok |-> FALSE, error |-> FALSE, amount |-> 0, category |-> ""],
    [key |-> TRUE, ok |-> FALSE, error |-> FALSE, amount |-> 0, category |-> ""],
    [key |-> TRUE, ok |-> TRUE, error |-> TRUE, amount |-> 0, category |-> ""],
    [key |-> TRUE, ok |-> TRUE, error |-> FALSE, amount |-> 0, category |-> "food"],
    [key |-> TRUE, ok |-> TRUE, error |-> FALSE, amount |-> 45000 * Sub,
     category |-> "supermarket"] }

\* the limit row the limits table holds when it is read; 0: no row
Limits == {0, 35000 * Sub}

\* the outcomes of getOrCreateUser / get_or_create_user's storage calls
\* (TRUE: the call succeeds)
UserOutcomes == [select : BOOLEAN, insert : BOOLEAN]

\* the outcomes of saveTransaction's storage calls; a call that is not
\* reached has no outcome of its own
TsSaveOutcomes == {io \in [insert : BOOLEAN, rpc : BOOLEAN] : ~io.insert => io.rpc}

\* the outcomes of save_transaction's storage calls: the insert, the rpc, and
\* the balance read and balance write of the fallback
PySaveOutcomes ==
  {io \in [insert : BOOLEAN, rpc : BOOLEAN, read : BOOLEAN, write : BOOLEAN] :
     /\ ~io.insert => io.rpc
     /\ io.rpc => io.read /\ io.write
     /\ ~io.write => io.read}

\* a moment: the calendar month, the seconds since that month began (day,
\* hour, minute and second taken together) and the microsecond
Moment(month, second, microsecond) ==
  [month |-> month, second |-> second, microsecond |-> microsecond]

\* a >= b on moments
NotBefore(a, b) ==
  \/ a.month > b.month
  \/ a.month = b.month /\ a.second > b.second
  \/ a.month = b.month /\ a.second = b.second /\ a.microsecond >= b.microsecond

\* the clock of the conversations, which stands still
Now == Moment(1, 1, 0)

\* the limit check of one handler run: the limit row read, whether the
\* month's spend query succeeds, whether the notice is delivered, and the
\* moment of the check
LimitOutcomes ==
  {lo \in [limit : Limits, query : BOOLEAN, send : BOOLEAN, now : {Now}] :
     /\ lo.limit = 0 => lo.query /\ lo.send
     /\ ~lo.query => lo.send}

\* the parsers' and classifiers' results on the texts the model sends,
\* computed once
Amount_ts == [t \in AllTexts |-> parseAmount(t)]

Amount_py == [t \in AllTexts \cup {Strip(x) : x \in AllTexts} |-> parse_amount(t)]

Category_ts == [t \in AllTexts |-> detectCategory(t)]

Category_py == [t \in AllTexts \cup {Strip(x) : x \in AllTexts} |-> detect_category(t)]

(***************************************************************************)
(* State                                                                   *)
(***************************************************************************)
VARIABLES
  bot,              \* the deployed program: "ts" or "py"
  users,            \* the ids with a row in the users table
  balance,          \* users.balance, by id (0 where there is no row)
  transactions,     \* the transactions table: each user's rows, oldest first
  pendingCategory,  \* const pendingCategory = new Map<number, {categoryId, type}>()
  user_pending,     \* user_pending: Dict[int, PendingTransaction] = {}
  last,             \* the last update handled: what arrived, what was answered
  input,            \* the argument a parser, classifier or evaluator is called on
  output,           \* what that call returned (<< >>: not called yet)
  tasks             \* the handler runs in progress, step by step (<< >>: none)

vars == <<bot, users, balance, transactions, pendingCategory, user_pending, last,
          input, output, tasks>>

\* the empty Map / dict
Empty == [u \in {} |-> 0]

\* a set that keeps the entry a key already has: the first pick would win
PutIfAbsent(map, k, v) ==
  [x \in (DOMAIN map) \cup {k} |-> IF x \in DOMAIN map THEN map[x] ELSE v]

\* Map.prototype.set / d[k] = v
Put(map, k, v) == [x \in (DOMAIN map) \cup {k} |-> IF x = k THEN v ELSE map[x]]

\* a delete that forgets every user's entry, not only k's
DropAll(map, k) == [x \in {} |-> map[x]]

\* Map.prototype.delete / d.pop(k, None)
Drop(map, k) == [x \in (DOMAIN map) \ {k} |-> map[x]]

\* Map.prototype.get / d.get(k): << >> for undefined / None
Get(map, k) == IF k \in DOMAIN map THEN <<map[k]>> ELSE << >>

RECURSIVE SumAmounts(_)
SumAmounts(txs) ==
  IF txs = << >> THEN 0 ELSE txs[1].amount + SumAmounts(Tail(txs))

\* the number of rows of the transactions table
Total(txs) ==
  LET RECURSIVE Count(_)
      Count(S) == IF S = {} THEN 0
                  ELSE LET u == CHOOSE x \in S : TRUE
                       IN  Len(txs[u]) + Count(S \ {u})
  IN  Count(DOMAIN txs)

TotalTx == Total(transactions)

\* the transactions table holds fewer than n rows
Room(n) == TotalTx < n

\* an update of user u arriving while `was` is the user's pending selection;
\* the handler fills in the text or callback payload, its reply, the limit
\* notice, how the record call ended ("ok", "failed", or "none": no call),
\* how many times it called the limit check, and the balance its reply shows
Update(u, ev, was) ==
  [user |-> u, event |-> ev, was |-> was, text |-> << >>, pick |-> << >>,
   reply |-> "none", notice |-> "none", record |-> "none", checks |-> 0,
   shown |-> << >>]

\* the program after construction: empty tables, no pending selection
Boot ==
  /\ bot \in {"ts", "py"}
  /\ users = {}
  /\ balance = [u \in Users |-> 0]
  /\ transactions = [u \in Users |-> << >>]
  /\ pendingCategory = Empty
  /\ user_pending = Empty
  /\ last = Update(0, "boot", << >>)
  /\ tasks = << >>

Init ==
  /\ Boot
  /\ input = << >>
  /\ output = << >>

InitPy == Init /\ bot = "py"

(***************************************************************************)
(* Storage collaborator                                                    *)
(***************************************************************************)
\* an insert that skips a row the user's ledger already holds
InsertTxOnce(txs, u, tx) ==
  LET row == [amount |-> tx.amount, category_id |-> tx.category_id,
              source |-> tx.source, created_at |-> Now]
  IN  IF \E n \in 1..Len(txs[u]) : txs[u][n] = row THEN txs
      ELSE [txs EXCEPT ![u] = Append(@, row)]

\* an insert whose row joins every user's ledger
InsertTxAll(txs, u, tx) ==
  [x \in DOMAIN txs |->
     Append(txs[x], [amount |-> tx.amount, category_id |-> tx.category_id,
                     source |-> tx.source, created_at |-> Now])]

\* an insert that writes over the newest row of the ledger
InsertTxOverNewest(txs, u, tx) ==
  LET row == [amount |-> tx.amount, category_id |-> tx.category_id,
              source |-> tx.source, created_at |-> Now]
  IN  IF Len(txs[u]) = 0
      THEN [txs EXCEPT ![u] = Append(@, row)]
      ELSE [txs EXCEPT ![u][Len(txs[u])] = row]

\* supabase.from("transactions").insert({...}): the row joins the table,
\* created_at being the moment of the insert
InsertTx(txs, u, tx) ==
  [txs EXCEPT ![u] = Append(@, [amount |-> tx.amount, category_id |-> tx.category_id,
                                source |-> tx.source, created_at |-> Now])]

\* supabase.rpc("update_balance", {p_telegram_id, p_amount}): the atomic
\* apply-delta primitive; it touches the row of that user, if there is one
update_balance(bal, rows, u, amount) ==
  IF u \in rows THEN [bal EXCEPT ![u] = @ + amount] ELSE bal

\* supabase.table("users").update({"balance": v}).eq("telegram_id", u)
UpdateBalance(bal, rows, u, v) ==
  IF u \in rows THEN [bal EXCEPT ![u] = v] ELSE bal

\* async function saveTransaction(telegramId, tx): the tables afterwards,
\* and whether it threw
saveTransaction(txs, bal, rows, u, tx, io) ==
  IF ~io.insert
  THEN [transactions |-> txs, balance |-> bal, threw |-> TRUE]
  ELSE [transactions |-> InsertTx(txs, u, tx),
        balance |-> IF io.rpc THEN update_balance(bal, rows, u, Trunc(tx.amount))
                    ELSE bal,
        threw |-> FALSE]

\* async function getBalance(telegramId): Number(data?.balance ?? 0), the
\* error of a failed read being logged
getBalance(bal, rows, u, readOk) == IF readOk /\ u \in rows THEN bal[u] ELSE 0

\* async def get_balance(telegram_id) -> int: 0 when the read fails or no row is there
get_balance(bal, rows, u, readOk) == IF readOk /\ u \in rows THEN bal[u] ELSE 0

\* async def save_transaction(telegram_id, description, amount, category_id, source) -> bool:
\* the tables afterwards, and the value returned
save_transaction(txs, bal, rows, u, tx, io) ==
  IF ~io.insert
  THEN [transactions |-> txs, balance |-> bal, returned |-> FALSE]
  ELSE IF io.rpc
  THEN [transactions |-> InsertTx(txs, u, tx),
        balance |-> update_balance(bal, rows, u, tx.amount),
        returned |-> TRUE]
  ELSE IF io.write
  THEN [transactions |-> InsertTx(txs, u, tx),
        balance |-> UpdateBalance(bal, rows, u,
                                  get_balance(bal, rows, u, io.read) + tx.amount),
        returned |-> TRUE]
  ELSE [transactions |-> InsertTx(txs, u, tx), balance |-> bal, returned |-> FALSE]

\* datetime.now().replace(day=1, hour=0, minute=0, second=0): the
\* microsecond of now stays
start_of_month(now) == Moment(now.month, 0, now.microsecond)

\* async def get_month_spent(telegram_id, category_id) -> int, called at the
\* moment now; 0 when the query fails
get_month_spent(txs, u, category_id, now, queryOk) ==
  LET RECURSIVE Spent(_)
      Spent(rows) ==
        IF rows = << >> THEN 0
        ELSE (IF /\ rows[1].category_id = category_id
                 /\ rows[1].amount < 0
                 /\ NotBefore(rows[1].created_at, start_of_month(now))
              THEN Abs(rows[1].amount) ELSE 0) + Spent(Tail(rows))
  IN  IF queryOk THEN Spent(txs[u]) ELSE 0

\* a limit check that warns only above 80 percent
check_and_notify_limitAbove(txs, u, category_id, lo) ==
  IF lo.limit = 0 \/ ~InCATEGORIES(category_id)
  THEN [notice |-> "none", raised |-> FALSE]
  ELSE LET spent   == get_month_spent(txs, u, category_id, lo.now, lo.query)
           percent == ((spent \div Sub) * 100) \div (lo.limit \div Sub)
       IN  IF percent >= 100 THEN [notice |-> "limit_exceeded", raised |-> ~lo.send]
           ELSE IF percent > 80 THEN [notice |-> "limit_warning", raised |-> ~lo.send]
           ELSE [notice |-> "none", raised |-> FALSE]

\* async def check_and_notify_limit(user_id, category_id, context): the
\* notice it sends, and whether sending raised
check_and_notify_limit(txs, u, category_id, lo) ==
  IF lo.limit = 0 \/ ~InCATEGORIES(category_id)
  THEN [notice |-> "none", raised |-> FALSE]
  ELSE LET spent   == get_month_spent(txs, u, category_id, lo.now, lo.query)
           \* int((spent / limit) * 100), on whole currency units
           percent == ((spent \div Sub) * 100) \div (lo.limit \div Sub)
       IN  IF percent >= 100 THEN [notice |-> "limit_exceeded", raised |-> ~lo.send]
           ELSE IF percent >= 80 THEN [notice |-> "limit_warning", raised |-> ~lo.send]
           ELSE [notice |-> "none", raised |-> FALSE]
(***************************************************************************)
(* Handlers of the grammY bots                                             *)
(***************************************************************************)
\* bot.command("start"): getOrCreateUser
TsStart(u) ==
  /\ bot = "ts"
  /\ \E io \in UserOutcomes :
       LET existing == io.select /\ u \in users
           created  == ~existing /\ io.insert /\ u \notin users
       IN  /\ users' = IF created THEN users \cup {u} ELSE users
           /\ balance' = IF created THEN [balance EXCEPT ![u] = 0] ELSE balance
           /\ last' = [Update(u, "start", Get(pendingCategory, u)) EXCEPT
                         !.reply = IF existing \/ created THEN "welcome" ELSE "none"]
  /\ UNCHANGED <<bot, input, output, tasks, transactions, pendingCategory, user_pending>>

\* bot.callbackQuery(/^pick_exp:(.+)$/i) and bot.callbackQuery(/^pick_inc:(.+)$/i)
TsPick(u, type, categoryId) ==
  /\ bot = "ts"
  /\ type \in {"expense", "income"}
  /\ pendingCategory' = Put(pendingCategory, u, [categoryId |-> categoryId, type |-> type])
  /\ last' = [Update(u, "pick", Get(pendingCategory, u)) EXCEPT
                !.pick = <<[type |-> type, id |-> categoryId]>>,
                !.reply = "enter_amount"]
  /\ UNCHANGED <<bot, input, output, tasks, users, balance, transactions, user_pending>>

\* a sign rule that stores the magnitude whatever the kind
finalAmountUnsigned(type, amount) == Abs(amount)

\* const finalAmount = type === "expense" ? -Math.abs(amount) : Math.abs(amount)
finalAmount(type, amount) == IF type = "expense" THEN -Abs(amount) ELSE Abs(amount)

\* a rejection that also forgets the user's pending selection
TsCantParseForgets(upd) ==
  /\ last' = [upd EXCEPT !.reply = "cant_parse"]
  /\ pendingCategory' = Drop(pendingCategory, upd.user)
  /\ UNCHANGED <<users, balance, transactions>>

\* if (!amount) { await ctx.reply("... Summani aniqlab bo'lmadi ..."); return; }
TsCantParse(upd) ==
  /\ last' = [upd EXCEPT !.reply = "cant_parse"]
  /\ UNCHANGED <<users, balance, transactions, pendingCategory>>

\* a free-text row that ignores the classifier and takes the fallback category
TsFreeTxFallback(text, amount) ==
  [amount |-> finalAmount("expense", amount), category_id |-> "other", source |-> "text"]

\* the row the free-text branch hands to saveTransaction
TsFreeTx(text, amount) ==
  LET det == Category_ts[text]
  IN  [amount |-> finalAmount(det.type, amount), category_id |-> det.id, source |-> "text"]

\* the row the pending-category branch hands to saveTransaction
TsManualTx(pending, amount) ==
  [amount |-> finalAmount(pending.type, amount), category_id |-> pending.categoryId,
   source |-> "manual"]

\* bot.on("message:text"), a category being pending: the text is the amount
TsPendingText(u, text) ==
  LET pending == pendingCategory[u]
      amount  == Amount_ts[text]
      upd     == [Update(u, "text", <<pending>>) EXCEPT !.text = text]
  IN  IF Falsy(amount)
      THEN TsCantParse(upd)
      ELSE \E io \in TsSaveOutcomes, readOk \in BOOLEAN :
             LET tx == TsManualTx(pending, amount.value)
                 r  == saveTransaction(transactions, balance, users, u, tx, io)
             IN  /\ transactions' = r.transactions
                 /\ balance' = r.balance
                 /\ pendingCategory' = IF r.threw THEN pendingCategory
                                       ELSE Drop(pendingCategory, u)
                 /\ last' = [upd EXCEPT
                               !.reply = IF r.threw THEN "none" ELSE "saved",
                               !.record = IF r.threw THEN "failed" ELSE "ok",
                               !.shown = IF r.threw THEN << >>
                                         ELSE <<getBalance(r.balance, users, u, readOk)>>]
                 /\ UNCHANGED users

\* bot.on("message:text"), nothing pending: "Accessories 500000" style
TsFreeText(u, text) ==
  LET amount == Amount_ts[text]
      upd    == [Update(u, "text", << >>) EXCEPT !.text = text]
  IN  IF Falsy(amount)
      THEN TsCantParse(upd)
      ELSE \E io \in TsSaveOutcomes, readOk \in BOOLEAN :
             LET tx == TsFreeTx(text, amount.value)
                 r  == saveTransaction(transactions, balance, users, u, tx, io)
             IN  /\ transactions' = r.transactions
                 /\ balance' = r.balance
                 /\ last' = [upd EXCEPT
                               !.reply = IF r.threw THEN "none" ELSE "saved",
                               !.record = IF r.threw THEN "failed" ELSE "ok",
                               !.shown = IF r.threw THEN << >>
                                         ELSE <<getBalance(r.balance, users, u, readOk)>>]
                 /\ UNCHANGED <<users, pendingCategory>>

\* bot.on("message:text")
TsText(u, text) ==
  /\ bot = "ts"
  /\ text # << >> /\ text[1] # "/"
  /\ IF u \in DOMAIN pendingCategory THEN TsPendingText(u, text) ELSE TsFreeText(u, text)
  /\ UNCHANGED <<bot, input, output, tasks, user_pending>>

(***************************************************************************)
(* Handlers of the python-telegram-bot bot                                 *)
(***************************************************************************)
\* async def start_command: get_or_create_user
PyStart(u) ==
  /\ bot = "py"
  /\ \E io \in UserOutcomes :
       LET created == io.select /\ u \notin users /\ io.insert
       IN  /\ users' = IF created THEN users \cup {u} ELSE users
           /\ balance' = IF created THEN [balance EXCEPT ![u] = 0] ELSE balance
           /\ last' = [Update(u, "start", Get(user_pending, u)) EXCEPT !.reply = "welcome"]
  /\ UNCHANGED <<bot, input, output, tasks, transactions, pendingCategory, user_pending>>

\* async def callback_handler, data.startswith("cat:")
PyPick(u, tx_type, category_id) ==
  /\ bot = "py"
  /\ tx_type \in TxType
  /\ user_pending' = Put(user_pending, u, [category_id |-> category_id,
                                           tx_type |-> tx_type, awaiting |-> "amount"])
  /\ last' = [Update(u, "pick", Get(user_pending, u)) EXCEPT
                !.pick = <<[type |-> tx_type, id |-> category_id]>>,
                !.reply = IF InCATEGORIES(category_id) THEN "enter_amount" ELSE "none"]
  /\ UNCHANGED <<bot, input, output, tasks, users, balance, transactions, pendingCategory>>

\* async def callback_handler, data == "cancel"
PyCancel(u) ==
  /\ bot = "py"
  /\ user_pending' = Drop(user_pending, u)
  /\ last' = [Update(u, "cancel", Get(user_pending, u)) EXCEPT !.reply = "cancelled"]
  /\ UNCHANGED <<bot, input, output, tasks, users, balance, transactions, pendingCategory>>

\* the ids cat.id with `"lent" in cat.id`
ContainsLent == {"lent"}

\* a sign rule that stores the magnitude whatever the selection
PendingSignUnsigned(pending, amount) == Abs(amount)

\* text_handler: "Determine sign based on transaction type"
PendingSign(pending, amount) ==
  IF pending.tx_type = "expense" THEN -Abs(amount)
  ELSE IF pending.tx_type = "income" THEN Abs(amount)
  ELSE IF InCATEGORIES(pending.category_id) /\ pending.category_id \in ContainsLent
       THEN -Abs(amount)
       ELSE Abs(amount)

\* final_amount = -abs(amount) if tx_type == TxType.EXPENSE else abs(amount)
final_amount(tx_type, amount) == IF tx_type = "expense" THEN -Abs(amount) ELSE Abs(amount)

\* the row text_handler and voice_handler save for a classified text
PyFreeTx(text, amount, source) ==
  LET det == Category_py[text]
  IN  [amount |-> final_amount(det.type, amount), category_id |-> det.id,
       source |-> source]

\* a rejection that also forgets the user's pending selection
PyCantParseForgets(upd) ==
  /\ last' = [upd EXCEPT !.reply = "cant_parse"]
  /\ user_pending' = Drop(user_pending, upd.user)
  /\ UNCHANGED <<users, balance, transactions>>

\* if not amount: await message.reply_text(t(user.id, "cant_parse")); return
PyCantParse(upd) ==
  /\ last' = [upd EXCEPT !.reply = "cant_parse"]
  /\ UNCHANGED <<users, balance, transactions, user_pending>>

\* save, then check_and_notify_limit, then the reply: the tail both branches
\* of text_handler share
PySaveAndNotify(u, upd, tx) ==
  \E io \in PySaveOutcomes, lo \in LimitOutcomes, readOk \in BOOLEAN :
    LET r == save_transaction(transactions, balance, users, u, tx, io)
        n == check_and_notify_limit(r.transactions, u, tx.category_id, lo)
    IN  /\ transactions' = r.transactions
        /\ balance' = r.balance
        /\ last' = [upd EXCEPT
                      !.reply = IF n.raised THEN "none" ELSE "saved",
                      !.notice = IF n.raised THEN "none" ELSE n.notice,
                      !.record = IF r.returned THEN "ok" ELSE "failed",
                      !.checks = 1,
                      !.shown = IF n.raised THEN << >>
                                ELSE <<get_balance(r.balance, users, u, readOk)>>]
        /\ UNCHANGED users

\* async def text_handler, a category being pending
PyPendingText(u, text) ==
  LET pending == user_pending[u]
      amount  == Amount_py[text]
      upd     == [Update(u, "text", <<pending>>) EXCEPT !.text = text]
  IN  IF Falsy(amount)
      THEN PyCantParse(upd)
      ELSE IF ~InCATEGORIES(pending.category_id)
      THEN /\ last' = upd
           /\ UNCHANGED <<users, balance, transactions, user_pending>>
      ELSE /\ PySaveAndNotify(u, upd,
                [amount |-> PendingSign(pending, amount.value),
                 category_id |-> pending.category_id, source |-> "manual"])
           /\ user_pending' = Drop(user_pending, u)

\* async def text_handler, nothing pending: "Taxi 30000"
PyFreeText(u, text) ==
  LET amount == Amount_py[text]
      upd    == [Update(u, "text", << >>) EXCEPT !.text = text]
  IN  IF Falsy(amount)
      THEN PyCantParse(upd)
      ELSE /\ PySaveAndNotify(u, upd, PyFreeTx(text, amount.value, "text"))
           /\ UNCHANGED user_pending

\* async def text_handler
PyText(u, message_text) ==
  LET text == Strip(message_text)
  IN  /\ bot = "py"
      /\ text # << >> /\ text[1] # "/"
      /\ IF u \in DOMAIN user_pending THEN PyPendingText(u, text) ELSE PyFreeText(u, text)
      /\ UNCHANGED <<bot, input, output, tasks, pendingCategory>>

\* async def voice_handler
PyVoice(u, transcript) ==
  LET upd == Update(u, "voice", Get(user_pending, u))
  IN  /\ bot = "py"
      /\ IF transcript = <<"no_key">>
         THEN /\ last' = [upd EXCEPT !.reply = "no_openai"]
              /\ UNCHANGED <<users, balance, transactions>>
         ELSE IF transcript = <<"none">>
         THEN /\ last' = [upd EXCEPT !.reply = "cant_parse"]
              /\ UNCHANGED <<users, balance, transactions>>
         ELSE LET text   == transcript
                  amount == Amount_py[text]
              IN  IF Falsy(amount)
                  THEN /\ last' = [upd EXCEPT !.text = text, !.reply = "cant_parse"]
                       /\ UNCHANGED <<users, balance, transactions>>
                  ELSE \E io \in PySaveOutcomes, readOk \in BOOLEAN :
                         LET tx  == PyFreeTx(text, amount.value, "voice")
                             r   == save_transaction(transactions, balance, users,
                                                     u, tx, io)
                         IN  /\ transactions' = r.transactions
                             /\ balance' = r.balance
                             /\ last' = [upd EXCEPT
                                           !.text = text, !.reply = "saved",
                                           !.record = IF r.returned THEN "ok"
                                                      ELSE "failed",
                                           !.shown = <<get_balance(r.balance, users,
                                                                   u, readOk)>>]
                             /\ UNCHANGED users
      /\ UNCHANGED <<bot, input, output, tasks, pendingCategory, user_pending>>

\* async def photo_handler
PyPhoto(u, result) ==
  LET upd == Update(u, "photo", Get(user_pending, u))
  IN  /\ bot = "py"
      /\ IF ~result.key
         THEN /\ last' = [upd EXCEPT !.reply = "no_openai"]
              /\ UNCHANGED <<users, balance, transactions>>
         ELSE IF ~result.ok \/ result.error
         THEN /\ last' = [upd EXCEPT !.reply = "unreadable"]
              /\ UNCHANGED <<users, balance, transactions>>
         ELSE \E io \in PySaveOutcomes, readOk \in BOOLEAN :
                LET category_id == IF InCATEGORIES(result.category)
                                   THEN result.category ELSE "shopping"
                    tx == [amount |-> -Abs(result.amount),
                           category_id |-> category_id, source |-> "receipt"]
                    r  == save_transaction(transactions, balance, users, u, tx, io)
                IN  /\ transactions' = r.transactions
                    /\ balance' = r.balance
                    /\ last' = [upd EXCEPT
                                  !.reply = "saved",
                                  !.record = IF r.returned THEN "ok" ELSE "failed",
                                  !.shown = <<get_balance(r.balance, users, u, readOk)>>]
                    /\ UNCHANGED users
      /\ UNCHANGED <<bot, input, output, tasks, pendingCategory, user_pending>>

(***************************************************************************)
(* Specifications                                                          *)
(***************************************************************************)
\* two users talking to either bot: start, category picks, cancel, text
Next ==
  \/ \E u \in Users : TsStart(u)
  \/ \E u \in Users, p \in Payloads : TsPick(u, p.type, p.id)
  \/ \E u \in Users, text \in Texts : Room(MaxPairTx) /\ TsText(u, text)
  \/ \E u \in Users : PyStart(u)
  \/ \E u \in Users, p \in Payloads : PyPick(u, p.type, p.id)
  \/ \E u \in Users : PyCancel(u)
  \/ \E u \in Users, text \in Texts : Room(MaxPairTx) /\ PyText(u, text)

Spec == Init /\ [][Next]_vars

\* one user talking to either bot, with more messages and payloads
NextWide ==
  \/ \E u \in Solo : TsStart(u)
  \/ \E u \in Solo, p \in WidePayloads : TsPick(u, p.type, p.id)
  \/ \E u \in Solo, text \in WideTexts : Room(MaxTx) /\ TsText(u, text)
  \/ \E u \in Solo : PyStart(u)
  \/ \E u \in Solo, p \in WidePayloads : PyPick(u, p.type, p.id)
  \/ \E u \in Solo : PyCancel(u)
  \/ \E u \in Solo, text \in WideTexts : Room(MaxTx) /\ PyText(u, text)

SpecWide == Init /\ [][NextWide]_vars

\* one user sending text, voice messages and receipt photos
NextMedia ==
  \/ \E u \in Solo : PyStart(u)
  \/ \E u \in Solo, text \in Texts : Room(MaxTx) /\ PyText(u, text)
  \/ \E u \in Solo, transcript \in Transcripts : Room(MaxTx) /\ PyVoice(u, transcript)
  \/ \E u \in Solo, result \in Receipts : Room(MaxTx) /\ PyPhoto(u, result)

SpecMedia == InitPy /\ [][NextMedia]_vars

\* one user recording debts
NextDebt ==
  \/ \E u \in Solo : PyStart(u)
  \/ \E u \in Solo, p \in DebtPayloads : PyPick(u, p.type, p.id)
  \/ \E u \in Solo : PyCancel(u)
  \/ \E u \in Solo, text \in Texts : Room(MaxTx) /\ PyText(u, text)

SpecDebt == InitPy /\ [][NextDebt]_vars

(***************************************************************************)
(* Views of the state the properties read                                  *)
(***************************************************************************)
\* the pending-selection map of the deployed bot
Pending == IF bot = "ts" THEN pendingCategory ELSE user_pending

\* the categoryId and the kind a pending selection holds
SelId(sel) == IF bot = "ts" THEN sel.categoryId ELSE sel.category_id

SelKind(sel) == IF bot = "ts" THEN sel.type ELSE sel.tx_type

\* the selection a callback payload stores
Selection(p) ==
  IF bot = "ts" THEN [categoryId |-> p.id, type |-> p.type]
  ELSE [category_id |-> p.id, tx_type |-> p.type, awaiting |-> "amount"]

\* the amount parser's and the category classifier's result on a text
Parsed(text) == IF bot = "ts" THEN Amount_ts[text] ELSE Amount_py[text]

Classified(text) == IF bot = "ts" THEN Category_ts[text] ELSE Category_py[text]

\* the categoryIds a pending selection is recorded under: any id in the
\* grammY bots, an id of the taxonomy in the Python bot
Recordable(sel) == bot = "ts" \/ InCATEGORIES(SelId(sel))

\* the newest row of a user's ledger
Newest(u) == transactions[u][Len(transactions[u])]

\* the step is user u's text message being handled
TextBy(u) == last'.user = u /\ last'.event = "text"

\* the step appends exactly the row tx to u's ledger, and nothing else
Appends(u, tx) == transactions' = [transactions EXCEPT ![u] = Append(@, tx)]

\* the row the specification asks of a selection and a raw amount
SelectedRow(sel, raw) ==
  [amount |-> IF SelKind(sel) = "expense" THEN -Abs(raw) ELSE Abs(raw),
   category_id |-> SelId(sel), source |-> "manual", created_at |-> Now]

\* the row the specification asks of a classified text and a raw amount
ClassifiedRow(text, raw) ==
  LET det == Classified(text)
  IN  [amount |-> IF det.type = "expense" THEN -Abs(raw) ELSE Abs(raw),
       category_id |-> det.id, source |-> "text", created_at |-> Now]

(***************************************************************************)
(* Properties                                                              *)
(***************************************************************************)
\* C1: whenever a record call completes successfully (saveTransaction returns
\* without throwing, save_transaction returns True), whatever the storage
\* calls' outcomes were, the user's stored balance equals the sum of the
\* amounts of the transactions in that user's ledger.
C1_BalanceIsLedgerSum ==
  \A u \in users :
    (last.user = u /\ last.record = "ok") => balance[u] = SumAmounts(transactions[u])

\* saveTransaction returned normally after the update_balance rpc reported an
\* error: the row is in the ledger, the balance never moved
C1_DeltaLost ==
  /\ bot = "ts"
  /\ last.event = "text" /\ last.record = "ok"
  /\ last.user \in users
  /\ Len(transactions[last.user]) = 1
  /\ Newest(last.user).amount # 0
  /\ balance[last.user] = 0

\* C2: every transaction appended to the ledger, by any handler (text with a
\* pending selection, free text, voice, receipt), has an amount other than 0.
C2_AmountNonZero ==
  \A u \in Users : \A n \in 1..Len(transactions[u]) : transactions[u][n].amount # 0

\* a receipt whose analysis gave amount 0 is in the ledger
C2_ZeroReceipt ==
  \E u \in Users : \E n \in 1..Len(transactions[u]) :
    transactions[u][n].source = "receipt" /\ transactions[u][n].amount = 0

\* C3: a text message in which the amount parser finds no amount mutates no
\* state, with or without a pending selection: no transaction is appended,
\* no balance changes, the pending-selection map is unchanged; the user is
\* asked to retry.
C3_ParseFailureMutatesNothing ==
  [][(last'.event = "text" /\ Falsy(Parsed(last'.text)))
       => /\ last'.reply = "cant_parse"
          /\ UNCHANGED <<users, balance, transactions, pendingCategory, user_pending>>]_vars

\* a text without an amount was answered while a selection was pending, the
\* ledger held a row and the balance was not 0
C3_RetryAsked ==
  /\ last.event = "text" /\ Falsy(Parsed(last.text))
  /\ last.reply = "cant_parse"
  /\ last.was # << >>
  /\ TotalTx > 0
  /\ balance[last.user] # 0

\* C4: a user in AwaitingAmount(categoryId, kind) who sends text the amount
\* parser rejects stays in AwaitingAmount with the same categoryId and kind;
\* the outcome is a parse failure and nothing is recorded, under no category.
C4_RejectedAmountKeepsSelection ==
  [][\A u \in Users :
       (TextBy(u) /\ u \in DOMAIN Pending /\ Falsy(Parsed(last'.text)))
       => /\ u \in DOMAIN Pending'
          /\ Pending'[u] = Pending[u]
          /\ last'.reply = "cant_parse" /\ last'.record = "none"
          /\ transactions' = transactions]_vars

\* the user's selection is the one the rejected text found
C4_StillAwaiting ==
  /\ last.event = "text" /\ Falsy(Parsed(last.text))
  /\ last.was # << >>
  /\ Get(Pending, last.user) = last.was
  /\ SelId(last.was[1]) = "salary"

\* C5: a user in AwaitingAmount(categoryId, kind) who sends text from which
\* the amount parser extracts an amount gets exactly one transaction with
\* that categoryId, that kind's sign and the parsed magnitude, and is in
\* NoSelection afterwards. It is read for the amounts the handlers accept
\* (other than 0) and the selections the bot records under.
C5_AmountRecordsSelection ==
  [][\A u \in Users :
       (/\ TextBy(u) /\ u \in DOMAIN Pending
        /\ ~Falsy(Parsed(last'.text)) /\ Recordable(Pending[u]))
       => /\ Appends(u, SelectedRow(Pending[u], Parsed(last'.text).value))
          /\ u \notin DOMAIN Pending']_vars

\* C5, as the code keeps it: for such a selection and amount, either the
\* insert succeeds, exactly that one transaction is appended and the user is
\* in NoSelection afterwards, or the insert fails and no transaction is
\* appended.
C5_AmountRecordsSelectionIfStored ==
  [][\A u \in Users :
       (/\ TextBy(u) /\ u \in DOMAIN Pending
        /\ ~Falsy(Parsed(last'.text)) /\ Recordable(Pending[u]))
       => \/ /\ Appends(u, SelectedRow(Pending[u], Parsed(last'.text).value))
             /\ u \notin DOMAIN Pending'
          \/ /\ last'.record = "failed"
             /\ transactions' = transactions]_vars

\* a second row was recorded under the selection, which is gone
C5_SelectionRecorded ==
  /\ last.event = "text" /\ last.record = "ok"
  /\ last.was # << >>
  /\ last.user \notin DOMAIN Pending
  /\ Len(transactions[last.user]) = 2
  /\ Newest(last.user) = SelectedRow(last.was[1], Parsed(last.text).value)

\* C6: the pending selection is one slot per user: after a category pick the
\* user's selection is exactly that pick, whatever was picked before; the
\* pick touches no other user's selection and records nothing.
C6_LastPickWins ==
  [][\A u \in Users :
       (last'.user = u /\ last'.event = "pick")
       => /\ Get(Pending', u) = <<Selection(last'.pick[1])>>
          /\ \A v \in Users \ {u} : Get(Pending', v) = Get(Pending, v)
          /\ UNCHANGED <<users, balance, transactions>>]_vars

\* a pick replaced a different selection of the same user
C6_PickReplaced ==
  /\ last.event = "pick"
  /\ last.was # << >>
  /\ last.was[1] # Selection(last.pick[1])
  /\ Get(Pending, last.user) = <<Selection(last.pick[1])>>

\* C7: cancel in AwaitingAmount moves the user to NoSelection and has no
\* other effect: no transaction is appended, no balance changes; cancel in
\* NoSelection changes nothing.
C7_CancelOnlyClearsSelection ==
  [][\A u \in Users :
       (last'.user = u /\ last'.event = "cancel")
       => /\ u \notin DOMAIN Pending'
          /\ \A v \in Users \ {u} : Get(Pending', v) = Get(Pending, v)
          /\ (u \notin DOMAIN Pending => Pending' = Pending)
          /\ UNCHANGED <<users, balance, transactions>>]_vars

\* a selection was cancelled while another user's was pending and the ledgers
\* were not empty
C7_Cancelled ==
  /\ last.event = "cancel"
  /\ last.was # << >>
  /\ last.user \notin DOMAIN Pending
  /\ Pending # Empty
  /\ TotalTx > 0

\* C8: a text message with a parsable amount sent in NoSelection runs the
\* amount parser and the category classifier and records exactly one
\* transaction, whose category and kind are the classifier's; the user
\* remains in NoSelection. It is read for the amounts the handlers accept
\* (other than 0).
C8_FreeTextRecordsClassified ==
  [][\A u \in Users :
       (TextBy(u) /\ u \notin DOMAIN Pending /\ ~Falsy(Parsed(last'.text)))
       => /\ Appends(u, ClassifiedRow(last'.text, Parsed(last'.text).value))
          /\ Pending' = Pending]_vars

\* C8, as the code keeps it: for such an amount, either the insert
\* succeeds and exactly that one transaction is appended, or the insert fails
\* and none is; the user remains in NoSelection either way.
C8_FreeTextRecordsClassifiedIfStored ==
  [][\A u \in Users :
       (TextBy(u) /\ u \notin DOMAIN Pending /\ ~Falsy(Parsed(last'.text)))
       => /\ \/ Appends(u, ClassifiedRow(last'.text, Parsed(last'.text).value))
             \/ last'.record = "failed" /\ transactions' = transactions
          /\ Pending' = Pending]_vars

\* a free text was recorded as income under the classifier's category
C8_ClassifiedRecorded ==
  /\ last.event = "text" /\ last.record = "ok"
  /\ last.was = << >>
  /\ Pending = Empty
  /\ Newest(last.user) = ClassifiedRow(last.text, Parsed(last.text).value)
  /\ Newest(last.user).category_id = "salary"
  /\ Newest(last.user).amount > 0

\* C9: every transaction recorded for text, with a pending selection or
\* without, has amount = -abs(rawAmount) < 0 when its kind is expense and
\* amount = +abs(rawAmount) > 0 when its kind is income.
C9_SignFollowsKind ==
  [][\A u \in Users :
       (TextBy(u) /\ Len(transactions'[u]) = Len(transactions[u]) + 1)
       => LET tx   == transactions'[u][Len(transactions'[u])]
              raw  == Parsed(last'.text).value
              kind == IF u \in DOMAIN Pending THEN SelKind(Pending[u])
                      ELSE Classified(last'.text).type
          IN  /\ kind = "expense" => tx.amount = -Abs(raw) /\ tx.amount < 0
              /\ kind = "income" => tx.amount = Abs(raw) /\ tx.amount > 0]_vars

\* a ledger holds an expense recorded for a selection and an income recorded
\* for a free text
C9_BothSigns ==
  \E u \in Users :
    /\ Len(transactions[u]) = 2
    /\ transactions[u][1].source = "manual" /\ transactions[u][1].amount < 0
    /\ transactions[u][2].source = "text" /\ transactions[u][2].amount > 0

\* what the rows before row n of u's ledger say the user owes: money was
\* borrowed and none was lent
OwesBefore(u, n) ==
  /\ \E m \in 1..(n - 1) : transactions[u][m].category_id = "borrowed"
  /\ \A m \in 1..(n - 1) : transactions[u][m].category_id # "lent"

\* what the rows before row n say the user is owed: money was lent and none
\* was borrowed
OwedBefore(u, n) ==
  /\ \E m \in 1..(n - 1) : transactions[u][m].category_id = "lent"
  /\ \A m \in 1..(n - 1) : transactions[u][m].category_id # "borrowed"

\* C10: for a selection of debt kind the sign follows the debt category:
\* a row under "borrowed" increases the balance, a row under "lent" decreases
\* it, and a row under "debt_payment" follows the direction of what is being
\* repaid: repaying what was borrowed decreases the balance, being repaid
\* what was lent increases it.
C10_DebtSignFollowsCategory ==
  \A u \in Users : \A n \in 1..Len(transactions[u]) :
    LET tx == transactions[u][n]
    IN  /\ tx.category_id = "borrowed" => tx.amount > 0
        /\ tx.category_id = "lent" => tx.amount < 0
        /\ tx.category_id = "debt_payment" =>
             /\ OwesBefore(u, n) => tx.amount < 0
             /\ OwedBefore(u, n) => tx.amount > 0

\* money was borrowed, then a repayment was recorded, and both raised the
\* balance
C10_RepaymentRaisesBalance ==
  \E u \in users :
    /\ Len(transactions[u]) = 2
    /\ transactions[u][1].category_id = "borrowed" /\ transactions[u][1].amount > 0
    /\ transactions[u][2].category_id = "debt_payment" /\ transactions[u][2].amount > 0
    /\ balance[u] = transactions[u][1].amount + transactions[u][2].amount

(***************************************************************************)
(* The classifier called on its own                                        *)
(***************************************************************************)
\* the words the classified texts are made of: an income keyword, an expense
\* keyword, a keyword of both kinds in the Python taxonomy, a debt keyword,
\* a word of no category, the fallback's keyword, and Cyrillic capitals
WordSalary == <<"S", "a", "l", "a", "r", "y">>

WordTaxi == <<"T", "A", "X", "I">>

WordGift == <<"g", "i", "f", "t">>

WordBorrowed == <<"b", "o", "r", "r", "o", "w", "e", "d">>

WordLunch == <<"l", "u", "n", "c", "h">>

WordOther == <<"o", "t", "h", "e", "r">>

WordIncome == <<"i", "n", "c", "o", "m", "e">>

\* "ЗАРПЛАТА"
WordZarplata == <<"u0417", "u0410", "u0420", "u041f", "u041b", "u0410", "u0422", "u0410">>

\* "Qarz berdim", the keyword of the debt category lent
WordQarz == <<"Q", "a", "r", "z", " ", "b", "e", "r", "d", "i", "m">>

Words ==
  {WordSalary, WordTaxi, WordGift, WordBorrowed, WordLunch, WordOther, WordIncome,
   WordZarplata, WordQarz}

\* the texts handed to the classifier: a word, or two words and a space
ClassifyTexts == Words \cup {a \o <<" ">> \o b : a \in Words, b \in Words}

\* detectCategory(text) is called
CallDetectCategory ==
  /\ bot = "ts"
  /\ output' = <<detectCategory(input)>>
  /\ UNCHANGED <<bot, users, balance, transactions, pendingCategory, user_pending,
                 last, input, tasks>>

\* detect_category(text) is called
CallDetect_category ==
  /\ bot = "py"
  /\ output' = <<detect_category(input)>>
  /\ UNCHANGED <<bot, users, balance, transactions, pendingCategory, user_pending,
                 last, input, tasks>>

InitClassify ==
  /\ Boot
  /\ input \in ClassifyTexts
  /\ output = << >>

NextClassify ==
  \/ CallDetectCategory
  \/ CallDetect_category

SpecClassify == InitClassify /\ [][NextClassify]_vars

\* kw occurs in text, letter case aside
ContainsNoCase(text, kw) ==
  \E p \in 1..(Len(text) - Len(kw) + 1) :
    \A i \in 1..Len(kw) : LowerChar(text[p + i - 1]) = LowerChar(kw[i])

\* the categories of one kind, in taxonomy order, of the deployed bot
OfKind(kind) ==
  IF bot = "ts"
  THEN (IF kind = "income" THEN CATEGORIES_income
        ELSE IF kind = "expense" THEN CATEGORIES_expense ELSE << >>)
  ELSE SelectSeq(PY_CATEGORIES, LAMBDA c : c.tx_type = kind)

\* the places, in taxonomy order, of the categories of a kind with a keyword
\* in the text
Matching(text, kind) ==
  {n \in 1..Len(OfKind(kind)) :
     \E k \in 1..Len(OfKind(kind)[n].keywords) :
       ContainsNoCase(text, OfKind(kind)[n].keywords[k])}

\* C11: the classifier returns the first income category, in taxonomy
\* order, with a keyword contained in the text (letter case aside); only when
\* no income category matches, the first matching expense category.  A text
\* with an income keyword and an expense keyword is classified as income.
C11_IncomeFirstInTaxonomyOrder ==
  output # << >> =>
    LET inc == Matching(input, "income")
        exp == Matching(input, "expense")
    IN  /\ inc # {} =>
             output[1] = [id |-> OfKind("income")[Leftmost(inc)].id, type |-> "income"]
        /\ (inc = {} /\ exp # {}) =>
             output[1] = [id |-> OfKind("expense")[Leftmost(exp)].id, type |-> "expense"]

\* a text with an expense keyword before an income keyword was classified
\* as income
C11_IncomeWonOverExpense ==
  /\ input = WordTaxi \o <<" ">> \o WordSalary
  /\ output # << >>
  /\ output[1] = [id |-> "salary", type |-> "income"]

\* the categoryIds of the deployed bot's taxonomy that are of a kind
IdsOfKind(kind) == {OfKind(kind)[n].id : n \in 1..Len(OfKind(kind))}

\* C12: the classifier is total: every call returns a category of the
\* taxonomy with its kind, and when no keyword of an income or expense
\* category occurs in the text the result is the "other" category, of kind
\* expense, which is a member of the taxonomy.
C12_FallbackIsOtherExpense ==
  output # << >> =>
    /\ output[1].type \in {"income", "expense"}
    /\ output[1].id \in IdsOfKind(output[1].type)
    /\ (Matching(input, "income") = {} /\ Matching(input, "expense") = {}) =>
         /\ output[1].type = "expense"
         /\ output[1].id = (IF bot = "ts" THEN "other" ELSE "other_expense")
         /\ output[1].id \in IdsOfKind("expense")

\* a text without a keyword of an income or expense category was classified
C12_FellBack ==
  /\ input = WordLunch \o <<" ">> \o WordBorrowed
  /\ Matching(input, "income") = {} /\ Matching(input, "expense") = {}
  /\ output # << >>
  /\ output[1].type = "expense"

\* C13: the keyword scan never returns a debt-kind category, whatever the
\* text: neither the kind it returns nor the categoryId it returns is a debt
\* one, so the free-text and voice paths, which take both from the scan,
\* never record a debt-kind transaction.
C13_ScanNeverReturnsDebt ==
  output # << >> =>
    /\ output[1].type # "debt"
    /\ output[1].id \notin IdsOfKind("debt")

\* a text holding a keyword of a debt category was classified
C13_DebtKeywordClassified ==
  /\ bot = "py"
  /\ Matching(input, "debt") # {}
  /\ output # << >>
  /\ output[1].type = "expense"

(***************************************************************************)
(* The amount parser called on its own                                     *)
(***************************************************************************)
\* the pieces the parsed texts are made of
\* "500k"
Amount500k == <<"5", "0", "0", "k">>

\* "1.5m"
Amount1_5m == <<"1", ".", "5", "m">>

\* "150 ming"
Amount150ming == <<"1", "5", "0", " ", "m", "i", "n", "g">>

\* "1,500,000"
AmountGrouped == <<"1", ",", "5", "0", "0", ",", "0", "0", "0">>

\* "99"
Amount99 == <<"9", "9">>

\* "500000"
Amount500000 == <<"5", "0", "0", "0", "0", "0">>

\* "0k"
Amount0k == <<"0", "k">>

\* "2MLN"
Amount2mln == <<"2", "M", "L", "N">>

\* "1.2345k"
AmountFraction == <<"1", ".", "2", "3", "4", "5", "k">>

\* "0,000"
AmountZeroGrouped == <<"0", ",", "0", "0", "0">>

\* "taxi"
NoAmount == <<"t", "a", "x", "i">>

\* "500к", the thousand token being the Cyrillic letter
Amount500Cyr == <<"5", "0", "0", "u043a">>

\* "5 млн"
Amount5Cyr == <<"5", " ", "u043c", "u043b", "u043d">>

\* "200 meters": a word that starts with the lone million letter
Amount200meters == <<"2", "0", "0", " ", "m", "e", "t", "e", "r", "s">>

\* "to 5000"
AmountAfterWord == <<"t", "o", " ", "5", "0", "0", "0">>

Pieces ==
  {AmountAfterWord, Amount500k, Amount1_5m, Amount150ming, AmountGrouped, Amount99, Amount500000,
   Amount0k, Amount2mln, AmountFraction, AmountZeroGrouped, NoAmount, Amount500Cyr,
   Amount5Cyr, Amount200meters}

\* the pieces a second piece may follow: a further group of digits after
\* "1,500,000" makes a value beyond the range of the model's integers
Heads == Pieces \ {AmountGrouped}

\* the texts handed to the parser: a piece, or two pieces and a space
ParseTexts == Pieces \cup {a \o <<" ">> \o b : a \in Heads, b \in Pieces}

\* parseAmount(text) is called
CallParseAmount ==
  /\ bot = "ts"
  /\ output' = <<parseAmount(input)>>
  /\ UNCHANGED <<bot, users, balance, transactions, pendingCategory, user_pending,
                 last, input, tasks>>

\* parse_amount(text) is called
CallParse_amount ==
  /\ bot = "py"
  /\ output' = <<parse_amount(input)>>
  /\ UNCHANGED <<bot, users, balance, transactions, pendingCategory, user_pending,
                 last, input, tasks>>

InitParse ==
  /\ Boot
  /\ input \in ParseTexts
  /\ output = << >>

NextParse ==
  \/ CallParseAmount
  \/ CallParse_amount

SpecParse == InitParse /\ [][NextParse]_vars

\* the text as the deployed bot's scale rules read it, and that bot's \w
Scanned(text) == IF bot = "ts" THEN ToLower(text) ELSE Strip(ToLower(text))

WordChars == IF bot = "ts" THEN WordJS ELSE WordPy

\* the places where a match of each tier starts
MillionStarts(text) ==
  {i \in 1..Len(Scanned(text)) :
     ScaledAt(Scanned(text), i, MillionWords \cup LoneM, WordChars)}

ThousandStarts(text) ==
  {i \in 1..Len(Scanned(text)) : ScaledAt(Scanned(text), i, ThousandWords, WordChars)}

GroupedStarts(text) ==
  {i \in 1..Len(Scanned(text)) : FormattedAt(Scanned(text), i)}

\* the places where a run of digits starts
RunStarts(text) ==
  {i \in 1..Len(Scanned(text)) :
     Scanned(text)[i] \in Digit /\ (i = 1 \/ Scanned(text)[i - 1] \notin Digit)}

\* what each tier's rule makes of its match at i
ScaledValue(text, i, scale) ==
  IF bot = "ts" THEN Some(ScaleJS(Capture(Scanned(text), i), scale))
  ELSE Some(ScalePy(Capture(Scanned(text), i), scale))

GroupedValue(text, i) == Some(IntVal(FormattedDigits(Scanned(text), i)) * Sub)

RunValue(text, i) ==
  LET n == IntVal(SubSeq(Scanned(text), i, DigitRunEnd(Scanned(text), i) - 1))
  IN  IF n >= MinAmount THEN Some(n * Sub) ELSE Null

\* C14: the tiers are tried in the order million-scale, thousand-scale,
\* grouped literal, bare digit run; the first tier with a match anywhere in
\* the text decides the result, which is what that tier makes of one of its
\* matches (never a sum), wherever matches of later tiers stand.
C14_FirstTierDecides ==
  output # << >> =>
    IF MillionStarts(input) # {}
    THEN \E i \in MillionStarts(input) : output[1] = ScaledValue(input, i, Million)
    ELSE IF ThousandStarts(input) # {}
    THEN \E i \in ThousandStarts(input) : output[1] = ScaledValue(input, i, Thousand)
    ELSE IF GroupedStarts(input) # {}
    THEN \E i \in GroupedStarts(input) : output[1] = GroupedValue(input, i)
    ELSE IF RunStarts(input) # {}
    THEN \E i \in RunStarts(input) : output[1] = RunValue(input, i)
    ELSE output[1] = Null

\* "500k 1.5m" was parsed: the million match stands after the thousand match
\* and decides
C14_LaterMillionDecided ==
  /\ input = Amount500k \o <<" ">> \o Amount1_5m
  /\ output = <<Some(1500000 * Sub)>>

\* the amounts C15 reads from a number and its scale token (or its grouping)
ScaleExamples ==
  { <<Amount500k, 500000>>, <<Amount1_5m, 1500000>>, <<Amount150ming, 150000>>,
    <<AmountGrouped, 1500000>>, <<Amount2mln, 2000000>>, <<Amount500Cyr, 500000>>,
    <<Amount5Cyr, 5000000>> }

\* C15: a number followed by a thousand token ("k", "ming", Cyrillic "к", ...)
\* parses to number x 1,000, a number followed by a million token ("m", "mln",
\* Cyrillic "млн", ...) to number x 1,000,000, and the lone "m" rule does not
\* fire on "ming" or on a longer word that starts with "m" ("200 meters" is
\* the bare run 200).
C15_ScaleTokensScale ==
  output # << >> =>
    /\ \A e \in ScaleExamples : input = e[1] => output[1] = Some(e[2] * Sub)
    /\ input = Amount200meters => output[1] = Some(200 * Sub)

\* the grammY parser read "500к" (Cyrillic token) as the bare run 500
C15_CyrillicTokenIgnored ==
  /\ bot = "ts"
  /\ input = Amount500Cyr
  /\ output = <<Some(500 * Sub)>>

\* C16: when no scale token and no grouped literal matches, only the first
\* run of digits counts: its value is the result when it is at least 100, and
\* the parser reports failure otherwise, whatever later runs of digits hold.
C16_OnlyFirstRunCounts ==
  (/\ output # << >>
   /\ MillionStarts(input) = {}
   /\ ThousandStarts(input) = {}
   /\ GroupedStarts(input) = {}
   /\ RunStarts(input) # {})
    => output[1] = RunValue(input, Leftmost(RunStarts(input)))

\* "99 to 5000" was parsed: the first run is below the floor, a later one is
\* not, and the parser reported failure
C16_LaterRunIgnored ==
  /\ input = Amount99 \o <<" ">> \o AmountAfterWord
  /\ output = <<Null>>

\* C17: in the million and thousand tiers a decimal magnitude is truncated
\* toward zero after scaling, so every value the amount parser returns is an
\* integer.
C17_ParsedAmountIsInteger ==
  (output # << >> /\ output[1] # Null) => IsInteger(output[1].value)

\* the grammY parser returned 1234.5 for "1.2345k"
C17_FractionReturned ==
  /\ bot = "ts"
  /\ input = AmountFraction
  /\ output = <<Some(12345 * (Sub \div 10))>>
  /\ ~IsInteger(output[1].value)

\* C18: for every text the amount parser returns either a strictly positive
\* magnitude or "no amount found"; never zero, never a negative number.
C18_ParsedAmountIsPositive ==
  (output # << >> /\ output[1] # Null) => output[1].value > 0

\* the parser returned the amount 0 for "0k"
C18_ZeroReturned ==
  /\ input = Amount0k
  /\ output = <<Some(0)>>

(***************************************************************************)
(* The limit check called on its own                                       *)
(***************************************************************************)
\* the most rows the ledger of a limit check holds
MaxRows == 2

\* category_id of a limits row that names no category
NoCategory == "NULL"

\* the category whose limit is checked
Checked == "taxi"

\* limit_amount of the limits rows
LimitAmounts == {5 * Sub, 100000 * Sub}

\* a row of the limits table; enabled is a column get_category_limit does
\* not select
LimitRow(category_id, limit_amount, enabled) ==
  [category_id |-> category_id, limit_amount |-> limit_amount, enabled |-> enabled]

\* the rows of the user in the limits table: at most one for the checked
\* category and at most one that names no category
LimitTables ==
  {per \cup agg :
     per \in {{}} \cup {{LimitRow(Checked, a, e)} : a \in LimitAmounts, e \in BOOLEAN},
     agg \in {{}} \cup {{LimitRow(NoCategory, 100000 * Sub, e)} : e \in BOOLEAN}}

\* a row of the transactions table
LedgerRow(category_id, amount, created_at) ==
  [category_id |-> category_id, amount |-> amount, source |-> "text",
   created_at |-> created_at]

\* the moments of the limit checks, and the first moment of their month
Clock == {Now, Moment(1, 1, 1)}

MonthBegan == Moment(1, 0, 0)

\* the rows of the user in the transactions table: of the present moment, of
\* the first moment of the month, and of the month before
LedgerRows ==
  {LedgerRow(Checked, -(s * Sub), Now) : s \in {1, 3, 4, 5, 79999, 80000, 99999, 100000}}
    \cup {LedgerRow("food", -(100000 * Sub), Now),
          LedgerRow(Checked, 100000 * Sub, Now),
          LedgerRow(Checked, -(100000 * Sub), MonthBegan),
          LedgerRow(Checked, -(100000 * Sub), Moment(0, 1, 0))}

Ledgers == UNION {[1..n -> LedgerRows] : n \in 1..MaxRows}

\* the rows of another user in the transactions table
OtherLedger == <<LedgerRow(Checked, -(100000 * Sub), Now)>>

\* the transactions table of a limit check
LedgerOf(check) == [u \in Users |-> IF u = 1 THEN check.rows ELSE OtherLedger]

\* one limit check: the tables it reads, its moment, and whether the limits
\* read, the month's spend query and the delivery of the notice succeed
LimitChecks ==
  [limits : LimitTables, rows : Ledgers, now : Clock,
   read : BOOLEAN, query : BOOLEAN, send : BOOLEAN]

\* async def get_category_limit(telegram_id, category_id) -> Optional[int]:
\* the limit_amount of the row whose category_id equals category_id; 0 for
\* None (no such row, or the read raised)
get_category_limit(limits, category_id, readOk) ==
  LET hit == {r \in limits : r.category_id # NoCategory /\ r.category_id = category_id}
  IN  IF readOk /\ hit # {} THEN (CHOOSE r \in hit : TRUE).limit_amount ELSE 0

\* check_and_notify_limit(user_id, category_id, context) is called
CallCheck_and_notify_limit ==
  /\ bot = "py"
  /\ output' =
       <<check_and_notify_limit(
           LedgerOf(input), 1, Checked,
           [limit |-> get_category_limit(input.limits, Checked, input.read),
            query |-> input.query, send |-> input.send, now |-> input.now])>>
  /\ UNCHANGED <<bot, users, balance, transactions, pendingCategory, user_pending,
                 last, input, tasks>>

InitBudget ==
  /\ Boot
  /\ bot = "py"
  /\ input \in LimitChecks
  /\ output = << >>

NextBudget == CallCheck_and_notify_limit

SpecBudget == InitBudget /\ [][NextBudget]_vars

\* the enabled limits rows of the checked category, and those that name no
\* category
OwnLimits == {r \in input.limits : r.category_id = Checked /\ r.enabled}

AggregateLimits == {r \in input.limits : r.category_id = NoCategory /\ r.enabled}

\* the month's spend in the checked category at the moment now: the rows
\* of that calendar month with a negative amount, as magnitudes
RECURSIVE SpendOf(_, _)
SpendOf(rows, now) ==
  IF rows = << >> THEN 0
  ELSE (IF /\ rows[1].category_id = Checked
           /\ rows[1].amount < 0
           /\ rows[1].created_at.month = now.month
        THEN -rows[1].amount ELSE 0)
         + SpendOf(Tail(rows), now)

\* the spend the limit check was given by its spend query
SpendRead == get_month_spent(LedgerOf(input), 1, Checked, input.now, input.query)

\* ok (no notice), warning or exceeded, by the ratio S / L
Verdict(S, L) ==
  IF S * 10 < L * 8 THEN "none"
  ELSE IF S < L THEN "limit_warning"
  ELSE "limit_exceeded"

\* the limits row and the month's rows were read
TablesRead == output # << >> /\ input.read /\ input.query

\* C19: with a limit L > 0 for the category and the month's spend S in it, the
\* limit check yields no notice iff S/L < 0.8, the warning iff
\* 0.8 <= S/L < 1.0 and the exceeded notice iff S/L >= 1.0; with L = 100000,
\* S = 79999 yields no notice, S = 80000 the warning, S = 100000 exceeded.
C19_ThresholdsAtEightyAndHundred ==
  (TablesRead /\ OwnLimits # {}) =>
    LET L == (CHOOSE r \in OwnLimits : TRUE).limit_amount
        S == SpendRead
    IN  /\ output[1].notice = Verdict(S, L)
        /\ (L = 100000 * Sub /\ S = 79999 * Sub) => output[1].notice = "none"
        /\ (L = 100000 * Sub /\ S = 80000 * Sub) => output[1].notice = "limit_warning"
        /\ (L = 100000 * Sub /\ S = 100000 * Sub) => output[1].notice = "limit_exceeded"

\* a spend of 79999 and 1 in two rows against the limit 100000: the warning
C19_WarnedAtEightyPercent ==
  /\ TablesRead
  /\ OwnLimits = {LimitRow(Checked, 100000 * Sub, TRUE)}
  /\ input.rows = <<LedgerRow(Checked, -(79999 * Sub), Now),
                    LedgerRow(Checked, -(1 * Sub), Now)>>
  /\ output[1].notice = "limit_warning"

\* C20: when the user has no limit for the category but has an aggregate
\* limit (a row that names no category), the limit check uses the aggregate
\* limit: a month's spend in the category that reaches it is noticed.
C20_AggregateLimitUsed ==
  (/\ TablesRead
   /\ OwnLimits = {}
   /\ AggregateLimits # {}
   /\ SpendRead >= (CHOOSE r \in AggregateLimits : TRUE).limit_amount)
    => output[1].notice # "none"

\* only the aggregate limit 100000 is there, 100000 was spent in the
\* category, and the limit check stayed silent
C20_AggregateLimitIgnored ==
  /\ TablesRead
  /\ input.limits = {LimitRow(NoCategory, 100000 * Sub, TRUE)}
  /\ input.rows = <<LedgerRow(Checked, -(100000 * Sub), Now)>>
  /\ output = <<[notice |-> "none", raised |-> FALSE]>>

\* C21: when no enabled limit applies to the category (no limits row, or only
\* rows with enabled = false), the limit check yields no notice, whatever the
\* month's spend.
C21_NoEnabledLimitNoNotice ==
  (output # << >> /\ OwnLimits = {} /\ AggregateLimits = {})
    => output[1].notice = "none"

\* the only limits row is disabled, 100000 was spent against its 100000, and
\* the limit check decided on the exceeded notice
C21_DisabledLimitNoticed ==
  /\ input.limits = {LimitRow(Checked, 100000 * Sub, FALSE)}
  /\ input.rows = <<LedgerRow(Checked, -(100000 * Sub), Now)>>
  /\ output # << >>
  /\ output[1].notice = "limit_exceeded"


\* C22: the spend the limit check works with is the sum of the absolute
\* values of exactly those transactions that are this user's, have this
\* category, have a negative amount and were created in the current calendar
\* month; nothing else contributes.
C22_SpendIsThisMonthsExpenses ==
  TablesRead => SpendRead = SpendOf(input.rows, input.now)

\* the user's one expense was created in the first moment of the month, the
\* check runs later in that month, and the spend query gives 0
C22_FirstMomentLeftOut ==
  /\ TablesRead
  /\ input.rows = <<LedgerRow(Checked, -(100000 * Sub), MonthBegan)>>
  /\ input.now = Moment(1, 1, 1)
  /\ SpendRead = 0

\* C23: the limit check runs exactly once for each newly recorded expense
\* transaction, after the record call, whatever the source (manual, text,
\* voice, receipt), and does not run when nothing was recorded.
C23_CheckedOncePerRecordedExpense ==
  /\ (last.record = "ok" /\ Newest(last.user).amount < 0) => last.checks = 1
  /\ last.record # "ok" => last.checks = 0

\* a voice message's expense was recorded and the limit check never ran
C23_VoiceExpenseUnchecked ==
  /\ last.event = "voice" /\ last.record = "ok"
  /\ Newest(last.user).amount < 0
  /\ Newest(last.user).source = "voice"
  /\ last.checks = 0

\* C24: a failure while the limit is evaluated or its notice is delivered is
\* swallowed: the recorded transaction and the balance update stand and the
\* text handler completes, the user receiving the saved confirmation.
C24_AlertFailureSwallowed ==
  (last.event = "text" /\ last.record = "ok") => last.reply = "saved"

\* a text message's expense was recorded and the balance moved, delivering
\* the limit notice raised, and the handler ended without any reply
C24_SavedReplyLost ==
  /\ bot = "py"
  /\ last.event = "text" /\ last.record = "ok" /\ last.checks = 1
  /\ Newest(last.user).amount < 0
  /\ balance[last.user] = SumAmounts(transactions[last.user])
  /\ last.reply = "none" /\ last.notice = "none"

\* C25: a failed ledger append is never silently dropped: whenever the
\* storage insert of a transaction fails (the record call fails and no row
\* joins the ledger), the handler does not tell the user it was saved.
C25_FailedInsertNotReportedSaved ==
  [][(last'.record = "failed" /\ transactions' = transactions)
       => last'.reply # "saved"]_vars

\* the insert failed, the user's ledger is empty, and the user was told the
\* transaction was saved
C25_DroppedButReportedSaved ==
  /\ bot = "py"
  /\ last.event = "text" /\ last.record = "failed"
  /\ transactions[last.user] = << >>
  /\ balance[last.user] = 0
  /\ last.reply = "saved"

\* C26: a storage read failure during balance lookup fails that request: the
\* failed read is never replaced by 0, neither in the balance shown to the
\* user nor as the base of the read-then-write fallback, so a reply shows the
\* stored balance and a record step moves the balance by the row's amount.
C26_FailedReadNeverZero ==
  [][/\ last'.shown # << >> => last'.shown[1] = balance'[last'.user]
     /\ \A u \in Users :
          balance'[u] # balance[u] =>
            /\ Len(transactions'[u]) = Len(transactions[u]) + 1
            /\ balance'[u] = balance[u] + transactions'[u][Len(transactions'[u])].amount]_vars

\* the saved reply shows the balance 0 while the stored balance is not 0
C26_ZeroShown ==
  /\ last.reply = "saved" /\ last.record = "ok"
  /\ last.shown = <<0>>
  /\ last.user \in users
  /\ balance[last.user] # 0

(***************************************************************************)
(* The record call, storage call by storage call                           *)
(***************************************************************************)
\* the most updates waiting or in progress at once
MaxTasks == 2

\* the text messages of the updates: "taxi 30000", "Salary 5m"
TaskTexts == {TextTaxi, TextSalary}

\* the ledger and balance the user has when the updates arrive: nothing
\* yet, or "Salary 5m" already recorded
Seeds ==
  { [rows |-> << >>, balance |-> 0],
    [rows |-> InsertTx([u \in Users |-> << >>], 1,
                       PyFreeTx(TextSalary, Amount_py[TextSalary].value, "text"))[1],
     balance |-> 5000000 * Sub] }

\* an update waiting for text_handler
Queued(u, text) ==
  [user |-> u, text |-> text, pc |-> "queued", current |-> 0,
   fallback |-> FALSE, read |-> TRUE, applied |-> FALSE, returned |-> FALSE]

\* the row the text handler's free branch saves for a task's text
TaskTx(task) ==
  IF bot = "ts" THEN TsFreeTx(task.text, Amount_ts[task.text].value)
  ELSE PyFreeTx(task.text, Amount_py[task.text].value, "text")

\* a dispatcher that starts a handler while another is in progress
MayStartAnytime(t) == TRUE

\* Application.builder().token(BOT_TOKEN).build() and bot.start(): updates
\* are not processed concurrently; the next update's handler starts when the
\* one before has returned
MayStart(t) == \A o \in DOMAIN tasks : o # t => tasks[o].pc \in {"queued", "done"}

\* a step of task t leaves the other tasks, the maps and the call variables
Step(t, task) ==
  /\ tasks' = [tasks EXCEPT ![t] = task]
  /\ UNCHANGED <<bot, users, pendingCategory, user_pending, input, output>>

\* the text handler begins on the update: the amount parses, the text is
\* classified
TaskStart(t) ==
  /\ tasks[t].pc = "queued"
  /\ MayStart(t)
  /\ Step(t, [tasks[t] EXCEPT !.pc = "insert"])
  /\ UNCHANGED <<balance, transactions, last>>

\* a record call that goes on to the balance update whatever the insert did
AfterInsertAlways(ok) == "rpc"

\* `if (error) throw error;` / `except Exception as e: ... return False`:
\* where the record call is after its insert
AfterInsert(ok) == IF ok THEN "rpc" ELSE "reply"

\* saveTransaction / save_transaction: the insert into transactions; on an
\* error saveTransaction throws, save_transaction returns False
TaskInsert(t) ==
  /\ tasks[t].pc = "insert"
  /\ \E ok \in BOOLEAN :
       /\ transactions' = IF ok THEN InsertTx(transactions, tasks[t].user, TaskTx(tasks[t]))
                          ELSE transactions
       /\ Step(t, [tasks[t] EXCEPT !.pc = AfterInsert(ok)])
  /\ UNCHANGED <<balance, last>>

\* saveTransaction / save_transaction: the update_balance rpc; its error is
\* logged by saveTransaction, and sends save_transaction to its fallback
TaskRpc(t) ==
  /\ tasks[t].pc = "rpc"
  /\ \E ok \in BOOLEAN :
       /\ balance' = IF ~ok THEN balance
                     ELSE IF bot = "ts"
                     THEN update_balance(balance, users, tasks[t].user,
                                         Trunc(TaskTx(tasks[t]).amount))
                     ELSE update_balance(balance, users, tasks[t].user,
                                         TaskTx(tasks[t]).amount)
       /\ Step(t, [tasks[t] EXCEPT !.pc = IF ok \/ bot = "ts" THEN "reply" ELSE "read",
                                   !.applied = ok,
                                   !.returned = ok \/ bot = "ts"])
  /\ UNCHANGED <<transactions, last>>

\* save_transaction, fallback: current = await get_balance(telegram_id)
TaskRead(t) ==
  /\ tasks[t].pc = "read"
  /\ \E ok \in BOOLEAN :
       Step(t, [tasks[t] EXCEPT !.pc = "write", !.fallback = TRUE, !.read = ok,
                               !.current = get_balance(balance, users, tasks[t].user, ok)])
  /\ UNCHANGED <<balance, transactions, last>>

\* save_transaction, fallback: supabase.table("users").update({"balance":
\* current + amount}).eq("telegram_id", telegram_id).execute()
TaskWrite(t) ==
  /\ tasks[t].pc = "write"
  /\ \E ok \in BOOLEAN :
       /\ balance' = IF ok THEN UpdateBalance(balance, users, tasks[t].user,
                                              tasks[t].current + TaskTx(tasks[t]).amount)
                     ELSE balance
       /\ Step(t, [tasks[t] EXCEPT !.pc = "reply", !.applied = ok, !.returned = ok])
  /\ UNCHANGED <<transactions, last>>

\* the text handler after the record call: the reply (none after
\* saveTransaction threw), and the handler returns
TaskReply(t) ==
  /\ tasks[t].pc = "reply"
  /\ Step(t, [tasks[t] EXCEPT !.pc = "done"])
  /\ last' = [Update(tasks[t].user, "text", << >>) EXCEPT
                !.text = tasks[t].text,
                !.reply = IF bot = "ts" /\ ~tasks[t].returned THEN "none" ELSE "saved",
                !.record = IF tasks[t].returned THEN "ok" ELSE "failed"]
  /\ UNCHANGED <<balance, transactions>>

\* the user is registered, and the user's updates wait in the queue
InitRace ==
  /\ bot \in {"ts", "py"}
  /\ users = Solo
  /\ input \in Seeds
  /\ balance = [u \in Users |-> IF u \in Solo THEN input.balance ELSE 0]
  /\ transactions = [u \in Users |-> IF u \in Solo THEN input.rows ELSE << >>]
  /\ pendingCategory = Empty
  /\ user_pending = Empty
  /\ last = Update(0, "boot", << >>)
  /\ output = << >>
  /\ tasks \in [1..MaxTasks -> {Queued(u, text) : u \in Solo, text \in TaskTexts}]

NextRace ==
  \/ \E t \in DOMAIN tasks : TaskStart(t)
  \/ \E t \in DOMAIN tasks : TaskInsert(t)
  \/ \E t \in DOMAIN tasks : TaskRpc(t)
  \/ \E t \in DOMAIN tasks : TaskRead(t)
  \/ \E t \in DOMAIN tasks : TaskWrite(t)
  \/ \E t \in DOMAIN tasks : TaskReply(t)

SpecRace == InitRace /\ [][NextRace]_vars

\* the deltas of the tasks, added up
RECURSIVE Deltas(_)
Deltas(n) == IF n = 0 THEN 0 ELSE TaskTx(tasks[n]).amount + Deltas(n - 1)

\* every record call has applied its delta (by the rpc or by the fallback's
\* write), no balance read having failed
AllRecorded ==
  \A t \in DOMAIN tasks :
    tasks[t].pc = "done" /\ tasks[t].applied /\ tasks[t].read

\* C27: two record operations of one user cannot interleave their
\* read-current-balance-then-write-new-balance fallback: however the two
\* updates are scheduled, once both records have applied their deltas the
\* balance is the initial balance plus both deltas.
C27_NoLostUpdate ==
  AllRecorded => balance[1] = input.balance + Deltas(Len(tasks))

\* both records went through the fallback (the rpc failed for each) and the
\* balance holds both deltas on top of what it was
C27_BothFallbacksApplied ==
  /\ bot = "py"
  /\ AllRecorded
  /\ input.balance # 0
  /\ Len(transactions[1]) = Len(input.rows) + Len(tasks)
  /\ \A t \in DOMAIN tasks : tasks[t].fallback
  /\ balance[1] = input.balance + Deltas(Len(tasks))

\* C28: operations of different users are independent: however the updates
\* interleave, an event handled for one user (pick, cancel, text, record,
\* limit check) leaves every other user's pending selection, ledger and
\* balance as they were.
C28_OtherUsersUntouched ==
  [][\A b \in Users :
       b # last'.user =>
         /\ Get(pendingCategory', b) = Get(pendingCategory, b)
         /\ Get(user_pending', b) = Get(user_pending, b)
         /\ transactions'[b] = transactions[b]
         /\ balance'[b] = balance[b]
         /\ b \in users' <=> b \in users]_vars

\* user 1's text was recorded while user 2 is registered and has a
\* category pending: user 2's selection is there, ledger and balance empty
C28_RecordedBesidePending ==
  /\ last.user = 1 /\ last.event = "text" /\ last.record = "ok"
  /\ Len(transactions[1]) = 1 /\ balance[1] # 0
  /\ 2 \in users /\ 2 \in DOMAIN Pending
  /\ transactions[2] = << >> /\ balance[2] = 0

\* the two queued updates carry the same text and every handler has returned
SameTwice ==
  /\ \A t \in DOMAIN tasks : tasks[t].pc = "done" /\ tasks[t].text = tasks[1].text
  /\ Len(tasks) >= 2

\* the rows the tasks added to the ledger
Added == SubSeq(transactions[1], Len(input.rows) + 1, Len(transactions[1]))

IsPrefix(a, b) ==
  /\ Len(a) <= Len(b)
  /\ \A n \in 1..Len(a) : b[n] = a[n]

\* C30: the ledger is append-only and transactions are immutable: no step of
\* either bot removes or changes a row a user's ledger holds; each ledger
\* only grows by rows appended at its end.
C30_LedgerAppendOnly ==
  [][/\ DOMAIN transactions' = DOMAIN transactions
     /\ \A u \in DOMAIN transactions :
          IsPrefix(transactions[u], transactions'[u])]_vars

\* a ledger of two different rows, the later one just appended behind the
\* earlier one
C30_SecondRowAppended ==
  \E u \in DOMAIN transactions :
    /\ Len(transactions[u]) = 2
    /\ transactions[u][1] # transactions[u][2]
    /\ last.record = "ok"
    /\ last.user = u

(***************************************************************************)
(* User records, sources, categories and the order of record and delete    *)
(***************************************************************************)
\* C31: a user record is created on the user's first contact, whatever the
\* kind of the first event, with balance 0: whenever a user's ledger holds a
\* transaction the users table has the user's row, and rows already there
\* stay.
C31_RecordedUserExists ==
  /\ \A u \in Users : Len(transactions[u]) > 0 => u \in users
  /\ \A u \in Users : last.user = u /\ last.event \in {"pick", "text"}
                        /\ last.reply # "none" => u \in users

\* a first contact by text was recorded: the ledger has the row, the users
\* table has no row for its user
C31_RecordedWithoutUser ==
  \E u \in Users :
    /\ u \notin users
    /\ last.user = u
    /\ last.event = "text"
    /\ last.record = "ok"
    /\ Len(transactions[u]) = 1

\* one user picking categories and sending typed and spoken amounts
NextVoice ==
  \/ \E u \in Solo : PyStart(u)
  \/ \E u \in Solo, p \in Payloads : PyPick(u, p.type, p.id)
  \/ \E u \in Solo, text \in Texts : Room(MaxTx) /\ PyText(u, text)
  \/ \E u \in Solo, transcript \in Transcripts : Room(MaxTx) /\ PyVoice(u, transcript)

SpecVoice == InitPy /\ [][NextVoice]_vars

\* the row text_handler records for `text` when `was` is the sender's pending
\* selection (<< >>: none), its source tag replaced by `source`
TypedRow(was, text, source) ==
  LET amount == Amount_py[text].value
  IN  [amount      |-> IF was = << >> THEN PyFreeTx(text, amount, source).amount
                       ELSE PendingSign(was[1], amount),
       category_id |-> IF was = << >> THEN PyFreeTx(text, amount, source).category_id
                       ELSE was[1].category_id,
       source      |-> source,
       created_at  |-> Now]

\* C32: text recovered from voice is processed as typed text is: the same
\* pending-selection check, the same parse, classify and record steps, the
\* same budget evaluation; the recorded transaction differs in its source
\* tag only.
C32_VoiceAsTypedText ==
  (last.event = "voice" /\ last.record = "ok") =>
    LET u    == last.user
        rows == transactions[u]
    IN  /\ rows[Len(rows)] = TypedRow(last.was, Strip(last.text), "voice")
        /\ last.was # << >> => u \notin DOMAIN user_pending
        /\ last.checks = 1

\* a spoken "taxi 30000" after a category pick: recorded as a classified
\* taxi expense, the picked category still pending
C32_VoiceIgnoredPick ==
  /\ last.event = "voice"
  /\ last.record = "ok"
  /\ last.text = TextTaxi
  /\ last.was # << >>
  /\ last.user \in DOMAIN user_pending
  /\ LET rows == transactions[last.user]
     IN  /\ rows[Len(rows)].source = "voice"
         /\ rows[Len(rows)].category_id # last.was[1].category_id

\* the ids of the taxonomy of the deployed bot
TaxonomyIds ==
  IF bot = "ts"
  THEN {(CATEGORIES_expense \o CATEGORIES_income)[n].id :
          n \in 1..Len(CATEGORIES_expense \o CATEGORIES_income)}
  ELSE {PY_CATEGORIES[n].id : n \in 1..Len(PY_CATEGORIES)}

\* C33: every recorded transaction's categoryId is the id of a category of
\* the taxonomy, whatever path recorded it and whatever payload the category
\* pick carried.
C33_CategoryInTaxonomy ==
  \A u \in Users : \A n \in 1..Len(transactions[u]) :
    transactions[u][n].category_id \in TaxonomyIds

\* the grammY bot recorded an amount under the id of a pick_exp payload that
\* names no category
C33_UnknownCategoryRecorded ==
  /\ bot = "ts"
  /\ last.event = "text"
  /\ last.record = "ok"
  /\ last.was # << >>
  /\ LET rows == transactions[last.user]
     IN  /\ rows[Len(rows)].category_id = last.was[1].categoryId
         /\ rows[Len(rows)].category_id \notin TaxonomyIds
         /\ rows[Len(rows)].source = "manual"

\* C34: the balance delta is applied only after the transaction was appended:
\* a record call whose insert fails attempts no balance update (no rpc, no
\* fallback read or write) and leaves the user's balance as it was.
C34_NoDeltaWithoutAppend ==
  [][\A t \in DOMAIN tasks :
       /\ (tasks[t].pc = "insert" /\ tasks'[t].pc # "insert"
             /\ transactions' = transactions)
            => /\ tasks'[t].pc = "reply"
               /\ balance' = balance
       /\ (tasks[t].pc = "reply" /\ tasks'[t] # tasks[t])
            => /\ tasks'[t].pc = "done"
               /\ balance' = balance
       /\ tasks[t].pc = "done" => tasks'[t] = tasks[t]]_vars

\* every record call's insert failed: the handlers are done, the ledger and
\* the balance of 5000000 are what they were
C34_InsertFailedBalanceKept ==
  /\ input.balance = 5000000 * Sub
  /\ \A t \in DOMAIN tasks :
       tasks[t].pc = "done" /\ ~tasks[t].returned /\ ~tasks[t].fallback
  /\ transactions[1] = input.rows
  /\ balance[1] = input.balance

\* the text messages of the updates: "taxi 30000", "taxi 1.2345k"
DeltaTexts == {TextTaxi, TextFraction}

\* the user is registered, and the user's updates wait in the queue
InitDelta ==
  /\ bot \in {"ts", "py"}
  /\ users = Solo
  /\ input \in Seeds
  /\ balance = [u \in Users |-> IF u \in Solo THEN input.balance ELSE 0]
  /\ transactions = [u \in Users |-> IF u \in Solo THEN input.rows ELSE << >>]
  /\ pendingCategory = Empty
  /\ user_pending = Empty
  /\ last = Update(0, "boot", << >>)
  /\ output = << >>
  /\ tasks \in [1..MaxTasks -> {Queued(u, text) : u \in Solo, text \in DeltaTexts}]

SpecDelta == InitDelta /\ [][NextRace]_vars

\* C35: for every record operation the delta applied to the balance equals
\* the amount stored in the appended transaction: the number handed to
\* update_balance is the number inserted, for every amount the parser
\* returns.
C35_DeltaIsStoredAmount ==
  [][\A t \in DOMAIN tasks :
       (tasks[t].pc = "rpc" /\ tasks'[t].pc # "rpc" /\ tasks'[t].applied) =>
         LET u    == tasks[t].user
             rows == transactions[u]
         IN  balance'[u] - balance[u] = rows[Len(rows)].amount]_vars

\* the grammY bot recorded "taxi 1.2345k": the ledger's newest row is
\* -1234.5, the rpc was applied, and the balance holds whole units
C35_FractionStoredWholeApplied ==
  \E t \in DOMAIN tasks :
    /\ bot = "ts"
    /\ tasks[t].pc = "reply"
    /\ tasks[t].applied
    /\ tasks[t].text = TextFraction
    /\ LET rows == transactions[tasks[t].user]
       IN  /\ rows[Len(rows)].amount = -12345
           /\ ~IsInteger(rows[Len(rows)].amount)
    /\ IsInteger(balance[tasks[t].user])

(***************************************************************************)
(* The grammY text handler across its awaits: long polling and webhook     *)
(***************************************************************************)
\* an update waiting for its handler: a text message, or a category pick
\* with its callback payload
QueuedText(u, text) ==
  [kind |-> "text", user |-> u, text |-> text, pick |-> << >>, pc |-> "queued",
   pending |-> << >>, returned |-> FALSE]

QueuedPick(u, p) ==
  [kind |-> "pick", user |-> u, text |-> << >>, pick |-> <<p>>, pc |-> "queued",
   pending |-> << >>, returned |-> FALSE]

\* the selections pending when the updates arrive: none, or the expense
\* category picked before
Picked == { Empty, Put(Empty, 1, [categoryId |-> "taxi", type |-> "expense"]) }

\* bot.start() (long polling) hands the next update over when the handler of
\* the one before has returned; app.post(WEBHOOK_PATH, webhookCallback(bot,
\* "express")) starts a handler for every request as it arrives
MayBegin(t) ==
  IF bot = "web" THEN \A o \in 1..(t - 1) : tasks[o].pc # "queued"
  ELSE \A o \in 1..(t - 1) : tasks[o].pc = "done"

\* bot.callbackQuery(/^pick_exp:(.+)$/i) and (/^pick_inc:(.+)$/i): the set
\* runs before the handler's first await
PickBegin(t) ==
  /\ tasks[t].kind = "pick" /\ tasks[t].pc = "queued"
  /\ MayBegin(t)
  /\ pendingCategory' = Put(pendingCategory, tasks[t].user,
                            [categoryId |-> tasks[t].pick[1].id,
                             type |-> tasks[t].pick[1].type])
  /\ tasks' = [tasks EXCEPT ![t].pc = "done"]
  /\ last' = [Update(tasks[t].user, "pick", Get(pendingCategory, tasks[t].user)) EXCEPT
                !.pick = tasks[t].pick, !.reply = "enter_amount"]
  /\ UNCHANGED <<bot, users, balance, transactions, user_pending, input, output>>

\* bot.on("message:text") up to `await saveTransaction(..)`: the pending
\* entry is read, the amount parsed, the insert sent
TextBegin(t) ==
  /\ tasks[t].kind = "text" /\ tasks[t].pc = "queued"
  /\ MayBegin(t)
  /\ LET u == tasks[t].user
     IN  IF Falsy(Amount_ts[tasks[t].text])
         THEN /\ tasks' = [tasks EXCEPT ![t].pc = "done"]
              /\ last' = [Update(u, "text", Get(pendingCategory, u)) EXCEPT
                            !.text = tasks[t].text, !.reply = "cant_parse"]
         ELSE /\ tasks' = [tasks EXCEPT ![t].pc = "insert",
                                        ![t].pending = Get(pendingCategory, u)]
              /\ UNCHANGED last
  /\ UNCHANGED <<bot, users, balance, transactions, pendingCategory, user_pending,
                 input, output>>

\* the row the suspended handler hands to saveTransaction
HandlerTx(task) ==
  IF task.pending = << >> THEN TsFreeTx(task.text, Amount_ts[task.text].value)
  ELSE TsManualTx(task.pending[1], Amount_ts[task.text].value)

\* saveTransaction: the insert answers; on an error it throws, and the
\* handler ends in bot.catch
TextInsert(t) ==
  /\ tasks[t].kind = "text" /\ tasks[t].pc = "insert"
  /\ \E ok \in BOOLEAN :
       IF ok
       THEN /\ transactions' = InsertTx(transactions, tasks[t].user, HandlerTx(tasks[t]))
            /\ tasks' = [tasks EXCEPT ![t].pc = "rpc"]
            /\ UNCHANGED last
       ELSE /\ UNCHANGED transactions
            /\ tasks' = [tasks EXCEPT ![t].pc = "done"]
            /\ last' = [Update(tasks[t].user, "text", tasks[t].pending) EXCEPT
                          !.text = tasks[t].text, !.record = "failed"]
  /\ UNCHANGED <<bot, users, balance, pendingCategory, user_pending, input, output>>

\* saveTransaction: the rpc answers (its error is logged); the handler goes
\* on to pendingCategory.delete(from.id) in the pending branch, and to
\* `await getBalance(..)`
TextRpc(t) ==
  /\ tasks[t].kind = "text" /\ tasks[t].pc = "rpc"
  /\ \E ok \in BOOLEAN :
       balance' = IF ok THEN update_balance(balance, users, tasks[t].user,
                                            Trunc(HandlerTx(tasks[t]).amount))
                  ELSE balance
  /\ pendingCategory' = IF tasks[t].pending = << >> THEN pendingCategory
                        ELSE Drop(pendingCategory, tasks[t].user)
  /\ tasks' = [tasks EXCEPT ![t].pc = "reply", ![t].returned = TRUE]
  /\ UNCHANGED <<bot, users, transactions, user_pending, last, input, output>>

\* getBalance answers, and the handler replies "Saqlandi!"
TextReply(t) ==
  /\ tasks[t].kind = "text" /\ tasks[t].pc = "reply"
  /\ \E readOk \in BOOLEAN :
       last' = [Update(tasks[t].user, "text", tasks[t].pending) EXCEPT
                  !.text = tasks[t].text, !.reply = "saved", !.record = "ok",
                  !.shown = <<getBalance(balance, users, tasks[t].user, readOk)>>]
  /\ tasks' = [tasks EXCEPT ![t].pc = "done"]
  /\ UNCHANGED <<bot, users, balance, transactions, pendingCategory, user_pending,
                 input, output>>

\* the grammY bot run by long polling ("ts") or behind the webhook ("web"),
\* the user registered, the user's updates on their way
InitWebhook ==
  /\ bot \in {"ts", "web"}
  /\ users = Solo
  /\ balance = [u \in Users |-> 0]
  /\ transactions = [u \in Users |-> << >>]
  /\ input \in Picked
  /\ pendingCategory = input
  /\ user_pending = Empty
  /\ last = Update(0, "boot", << >>)
  /\ output = << >>
  /\ tasks \in [1..MaxTasks ->
                  {QueuedText(u, text) : u \in Solo, text \in {TextTaxi, TextCall}}
                  \cup {QueuedPick(u, p) : u \in Solo, p \in Payloads}]

NextWebhook ==
  \/ \E t \in DOMAIN tasks : PickBegin(t)
  \/ \E t \in DOMAIN tasks : TextBegin(t)
  \/ \E t \in DOMAIN tasks : TextInsert(t)
  \/ \E t \in DOMAIN tasks : TextRpc(t)
  \/ \E t \in DOMAIN tasks : TextReply(t)

SpecWebhook == InitWebhook /\ [][NextWebhook]_vars

\* the rows a category pick produced: those recorded with the source "manual"
ManualRows(u) ==
  {n \in 1..Len(transactions[u]) : transactions[u][n].source = "manual"}

\* the category picks of user u handled so far, the one before the updates
\* included
PicksHandled(u) ==
  Cardinality({t \in DOMAIN tasks : tasks[t].kind = "pick" /\ tasks[t].user = u
                                     /\ tasks[t].pc = "done"})
  + (IF u \in DOMAIN input THEN 1 ELSE 0)

\* C36: one category pick yields at most one transaction, also when two text
\* messages of the user are handled concurrently: a pending selection is
\* consumed by at most one of them.
C36_OnePickOneTransaction ==
  \A u \in Solo : Cardinality(ManualRows(u)) <= PicksHandled(u)

\* behind the webhook, one pick and two amounts: both handlers read the
\* pending entry before either deleted it, and each recorded a row for it
C36_PickRecordedTwice ==
  /\ bot = "web"
  /\ PicksHandled(1) = 1
  /\ Cardinality(ManualRows(1)) = 2
  /\ \A n \in ManualRows(1) : transactions[1][n].category_id = "taxi"

\* C37: the text handler's delete removes only the selection it consumed: a
\* pick of the same user handled while the handler was suspended in its
\* save is still pending when the handler has deleted.
C37_DeleteOnlyConsumed ==
  [][\A t \in DOMAIN tasks :
       (/\ tasks[t].kind = "text" /\ tasks[t].pc = "rpc" /\ tasks'[t].pc # "rpc"
        /\ tasks[t].pending # << >>
        /\ Get(pendingCategory, tasks[t].user) # << >>
        /\ Get(pendingCategory, tasks[t].user) # tasks[t].pending)
         => Get(pendingCategory', tasks[t].user) = Get(pendingCategory, tasks[t].user)]_vars

\* behind the webhook: the handler that consumed "taxi" has deleted, the
\* pick of "salary" handled during its save is gone, and no text consumed it
C37_LaterPickDeleted ==
  \E t, p \in DOMAIN tasks :
    /\ bot = "web"
    /\ tasks[t].kind = "text" /\ tasks[t].pc \in {"reply", "done"} /\ tasks[t].returned
    /\ tasks[t].pending = <<[categoryId |-> "taxi", type |-> "expense"]>>
    /\ tasks[p].kind = "pick" /\ tasks[p].pc = "done" /\ p > t
    /\ tasks[p].pick = <<[type |-> "income", id |-> "salary"]>>
    /\ \A o \in DOMAIN tasks : o > p => tasks[o].pc = "queued"
    /\ tasks[t].user \notin DOMAIN pendingCategory
    /\ \A o \in DOMAIN tasks :
         tasks[o].pending # <<[categoryId |-> "salary", type |-> "income"]>>

\* the pending selections of the deployed bot
PendingOf(ts, py) == IF bot = "py" THEN py ELSE ts

\* C38: the text handler removes a user's pending selection only after the
\* transaction for it was appended: when the append fails, or the handler
\* ends before saving, the selection is still pending.
C38_PendingKeptUnlessAppended ==
  [][\A u \in Users :
       (/\ last'.event = "text" /\ last'.user = u
        /\ u \in DOMAIN PendingOf(pendingCategory, user_pending)
        /\ u \notin DOMAIN PendingOf(pendingCategory', user_pending'))
         => /\ Len(transactions'[u]) = Len(transactions[u]) + 1
            /\ transactions'[u][Len(transactions'[u])].source = "manual"]_vars

\* the Python bot: the amount for a picked category was not appended, the
\* ledger is empty, and the selection is gone
C38_SelectionLostOnFailedAppend ==
  \E u \in Users :
    /\ bot = "py"
    /\ last.event = "text" /\ last.user = u
    /\ last.was # << >>
    /\ last.record = "failed"
    /\ transactions[u] = << >>
    /\ u \notin DOMAIN user_pending

\* what the shipped schema asks of a row of transactions: amount bigint not
\* null check (amount >= 0), type text not null check (type in ('expense',
\* 'income', 'debt'))
SchemaRow(row) ==
  /\ row.amount >= 0
  /\ "type" \in DOMAIN row
  /\ row["type"] \in {"expense", "income", "debt"}

\* C39: every transaction the bot inserts satisfies the constraints of the
\* shipped schema: its amount is non-negative, and its direction is carried
\* by a type among expense, income and debt.
C39_RowsSatisfySchema ==
  \A u \in Users : \A n \in 1..Len(transactions[u]) : SchemaRow(transactions[u][n])

\* "taxi 30000" was recorded as free text: the row's amount is -30000, and
\* it has no type field
C39_NegativeAmountInserted ==
  \E u \in Users :
    /\ last.event = "text" /\ last.user = u /\ last.text = TextTaxi
    /\ last.was = << >>
    /\ last.record = "ok"
    /\ LET rows == transactions[u]
       IN  /\ rows[Len(rows)].amount = -(30000 * Sub)
           /\ "type" \notin DOMAIN rows[Len(rows)]
====
